---- MODULE Spec2Model ----
(***************************************************************************)
(* A model of the StegoTorus "chopper" protocol (src/src/protocol/chop.cc): *)
(* the block header, the reassembly queue, the send scheduler and the      *)
(* receive pipeline of a circuit and its downstream connections.           *)
(*                                                                         *)
(* Byte strings are modelled by what they contain: every byte written to   *)
(* an upstream is named by its position in that upstream's stream, and a   *)
(* byte string is a sequence of runs <<lo, len>> of consecutive positions, *)
(* kept normalised (no empty run, adjacent runs merged), so two byte       *)
(* strings are equal exactly when their models are equal.                  *)
(***************************************************************************)
EXTENDS Integers, Sequences, FiniteSets, TLC

(***************************************************************************)
(* Widths.  TLC's integers are 32 bits wide, so the 32-bit sequence number *)
(* and the size_t arithmetic are modelled with narrower words of the same  *)
(* shape (a power of two that is a multiple of the window).                *)
(***************************************************************************)
SeqBits == 10

SizeBits == 18

SeqMod == 2 ^ SeqBits

SizeMod == 2 ^ SizeBits

(* Program constants, chop.cc:70-74 and :76-87 *)
HEADER_LEN == 16

TRAILER_LEN == 16

SECTION_LEN == 65535

MIN_BLOCK_SIZE == HEADER_LEN + TRAILER_LEN

MAX_BLOCK_SIZE == MIN_BLOCK_SIZE + SECTION_LEN * 2

op_DAT == 0

op_FIN == 1

op_RST == 2

op_RK1 == 3

op_RK2 == 4

op_RK3 == 5

op_RESERVED0 == 6

op_STEG0 == 128

op_LAST == 255

(* reassembly_elt cbuf[256]; indices are uint8_t *)
WINDOW == 256

Min(a, b) == IF a < b THEN a ELSE b

Max(a, b) == IF a > b THEN a ELSE b

(***************************************************************************)
(* evbuffer contents                                                       *)
(***************************************************************************)
Run(lo, len) == IF len = 0 THEN << >> ELSE << [lo |-> lo, len |-> len] >>

RECURSIVE evbuffer_get_length(_)
evbuffer_get_length(b) ==
  IF b = << >> THEN 0 ELSE Head(b).len + evbuffer_get_length(Tail(b))

(* evbuffer_add_buffer(dst, src): src's bytes appended to dst *)
evbuffer_add_buffer(dst, src) ==
  IF dst = << >> THEN src
  ELSE IF src = << >> THEN dst
  ELSE LET l == dst[Len(dst)]
           h == Head(src)
       IN IF l.lo + l.len = h.lo
            THEN SubSeq(dst, 1, Len(dst) - 1)
                   \o << [lo |-> l.lo, len |-> l.len + h.len] >>
                   \o Tail(src)
            ELSE dst \o src

(* evbuffer_copyout(buf, n): the first n bytes of buf (all of it if shorter) *)
RECURSIVE evbuffer_copyout(_, _)
evbuffer_copyout(b, n) ==
  IF n = 0 \/ b = << >> THEN << >>
  ELSE IF Head(b).len >= n THEN << [lo |-> Head(b).lo, len |-> n] >>
  ELSE << Head(b) >> \o evbuffer_copyout(Tail(b), n - Head(b).len)

(* evbuffer_drain(buf, n): buf without its first n bytes *)
RECURSIVE evbuffer_drain(_, _)
evbuffer_drain(b, n) ==
  IF n = 0 \/ b = << >> THEN b
  ELSE IF Head(b).len > n
         THEN << [lo |-> Head(b).lo + n, len |-> Head(b).len - n] >> \o Tail(b)
  ELSE evbuffer_drain(Tail(b), n - Head(b).len)

(***************************************************************************)
(* block_header                                                            *)
(***************************************************************************)
RECURSIVE BitOr(_, _)
BitOr(a, b) ==
  IF a = 0 THEN b
  ELSE IF b = 0 THEN a
  ELSE Max(a % 2, b % 2) + 2 * BitOr(a \div 2, b \div 2)

RECURSIVE OrBytes(_)
OrBytes(s) == IF s = << >> THEN 0 ELSE BitOr(Head(s), OrBytes(Tail(s)))

ZeroCheck == << 0, 0, 0, 0, 0, 0, 0 >>

(* the header a failed constructor leaves: every cleartext byte 0xFF *)
InvalidHeader ==
  [s |-> SeqMod - 1, d |-> 65535, p |-> 65535, f |-> 255,
   check |-> << 255, 255, 255, 255, 255, 255, 255 >>]

(* block_header(s, d, p, f, ec): d and p are uint16_t parameters *)
block_header(s, d, p, f) ==
  IF f > op_LAST \/ (f >= op_RESERVED0 /\ f < op_STEG0)
    THEN InvalidHeader
    ELSE [s |-> s % SeqMod, d |-> d % 65536, p |-> p % 65536, f |-> f,
          check |-> ZeroCheck]

total_len(hdr) == HEADER_LEN + TRAILER_LEN + hdr.d + hdr.p

(* valid() without the test of the check bytes *)
MValidNoCheck(hdr, window) ==
  LET delta == (hdr.s - window) % SeqMod
  IN  delta - (delta % 256) = 0

(* block_header::valid(window) *)
valid(hdr, window) ==
  LET ck    == OrBytes(hdr.check)
      delta == (hdr.s - window) % SeqMod
      hi    == delta - (delta % 256)          \* delta & ~0xFF
  IN  BitOr(ck, IF hi # 0 THEN 1 ELSE 0) = 0

(***************************************************************************)
(* reassembly_queue                                                        *)
(***************************************************************************)
NullBuf == [ptr |-> FALSE, bytes |-> << >>]

EvBuf(b) == [ptr |-> TRUE, bytes |-> b]

EmptyElt == [data |-> NullBuf, op |-> op_DAT]

(* reassembly_queue(): next_to_process(0), memset(cbuf, 0) *)
NewQueue == [cbuf |-> [i \in 0 .. WINDOW - 1 |-> EmptyElt], next_to_process |-> 0]

window(q) == q.next_to_process

(* remove_next() that hands out the front block but leaves next_to_process *)
MRemoveNextNoAdvance(q) ==
  LET front == q.next_to_process % 256
  IN  IF q.cbuf[front].data.ptr
        THEN [rv |-> q.cbuf[front],
              q  |-> [q EXCEPT !.cbuf[front] = EmptyElt]]
        ELSE [rv |-> EmptyElt, q |-> q]

(* remove_next() that steps over an empty front slot *)
MRemoveNextSkipGap(q) ==
  LET front == q.next_to_process % 256
      nxt   == (q.next_to_process + 1) % 256
  IN  IF q.cbuf[front].data.ptr
        THEN [rv |-> q.cbuf[front],
              q  |-> [cbuf |-> [q.cbuf EXCEPT ![front] = EmptyElt],
                      next_to_process |-> (q.next_to_process + 1) % SeqMod]]
        ELSE IF q.cbuf[nxt].data.ptr
          THEN [rv |-> q.cbuf[nxt],
                q  |-> [cbuf |-> [q.cbuf EXCEPT ![nxt] = EmptyElt],
                        next_to_process |-> (q.next_to_process + 2) % SeqMod]]
          ELSE [rv |-> EmptyElt, q |-> q]

(* reassembly_queue::remove_next(): [rv, q] *)
remove_next(q) ==
  LET front == q.next_to_process % 256
  IN  IF q.cbuf[front].data.ptr
        THEN [rv |-> q.cbuf[front],
              q  |-> [cbuf |-> [q.cbuf EXCEPT ![front] = EmptyElt],
                      next_to_process |-> (q.next_to_process + 1) % SeqMod]]
        ELSE [rv |-> EmptyElt, q |-> q]

(* insert() that replaces the block already held in the slot *)
MInsertOverwrite(q, seqno, op, data) ==
  LET delta == (seqno - window(q)) % SeqMod
      pos   == ((q.next_to_process % 256) + delta) % 256
  IN  IF delta > 255 THEN [ok |-> FALSE, q |-> q]
      ELSE [ok |-> TRUE,
            q  |-> [q EXCEPT !.cbuf[pos] = [data |-> EvBuf(data), op |-> op]]]

(* reassembly_queue::insert(seqno, op, data, conn): [ok, q] *)
insert(q, seqno, op, data) ==
  LET delta == (seqno - window(q)) % SeqMod
      front == q.next_to_process % 256
      pos   == (front + delta) % 256
  IN  IF delta > 255 THEN [ok |-> FALSE, q |-> q]
      ELSE IF q.cbuf[pos].data.ptr THEN [ok |-> FALSE, q |-> q]
      ELSE [ok |-> TRUE,
            q  |-> [q EXCEPT !.cbuf[pos] = [data |-> EvBuf(data), op |-> op]]]

(***************************************************************************)
(* A process (one side of the link).  Every operation below takes the      *)
(* process record P and yields the record after the call; P.ret is the     *)
(* call's return value and P.aborted says that log_abort / a failed        *)
(* log_assert has ended the process.                                       *)
(*   P.o    what the environment answers during this handler:              *)
(*          ord     the order in which the unordered downstream set is     *)
(*                  iterated                                               *)
(*          failat  which steg transmit of this handler fails (0: none)    *)
(*          oneshot whether a steg that has transmitted offers no room     *)
(*                  afterwards                                             *)
(*          cease   whether a steg calls cease_transmission() once it has  *)
(*                  transmitted                                            *)
(*          nullub  what passing a null evbuffer to evbuffer_drain does:   *)
(*                  TRUE ends the process, FALSE does nothing              *)
(*          behind  whether steg->receive leaves bytes it cannot decode    *)
(*                  yet in the connection's inbound buffer                 *)
(*          nomem   which allocation of this handler fails: "block" the    *)
(*                  buffer of a block, "prepend" the room for the circuit  *)
(*                  id before a first block, "none"; "upstream" is a       *)
(*                  circuit_open_upstream that fails                       *)
(*          junk    what the circuit_id of a circuit object reads as       *)
(*                  before anything has been stored in it                  *)
(*   P.ckt  the circuit the running handler works on, P.cur the key the    *)
(*          circuit table holds it under, P.parked the process's other     *)
(*          live circuits by key                                           *)
(*   P.tx   the blocks handed to each connection's steg in this handler    *)
(*   P.log  every block emitted so far, with the state it was built from   *)
(*   P.rx   every block taken off the reassembly queue so far              *)
(***************************************************************************)
Conns == { 1, 2 }

NoCircuit == 0

(* a block that goes out without the four bytes of a circuit id before it *)
NoHandshake == 0 - 1

NewCircuit(id) ==
  [live |-> TRUE, circuit_id |-> id, recv_queue |-> NewQueue,
   downstreams |-> { }, send_seq |-> 0, dead_cycles |-> 0,
   received_fin |-> FALSE, sent_fin |-> FALSE, upstream_eof |-> FALSE,
   up_in |-> << >>, up_out |-> << >>, up_unflushed |-> 0, recv_eof |-> 0,
   flush_timer |-> FALSE, axe_timer |-> FALSE, flushing |-> FALSE,
   reopen |-> FALSE]

NoCkt == [NewCircuit(NoCircuit) EXCEPT !.live = FALSE]

NewConn ==
  [live |-> TRUE, upstream |-> FALSE, steg |-> TRUE, room |-> 0,
   recv_pending |-> << >>, must_send_timer |-> FALSE,
   sent_handshake |-> FALSE, no_more_transmissions |-> FALSE,
   flushing |-> FALSE, sent_eof |-> FALSE, have_transmitted |-> FALSE,
   recv_short |-> 0, inbound |-> 0]

NoConn == [NewConn EXCEPT !.live = FALSE, !.steg = FALSE]

NoOracle ==
  [ord |-> << >>, failat |-> 0, oneshot |-> FALSE, nullub |-> FALSE,
   cease |-> FALSE, nomem |-> "none", behind |-> FALSE, junk |-> 0]

NewProc(mode) ==
  [mode |-> mode, aborted |-> FALSE, ret |-> 0,
   circuits |-> << >>, ckt |-> NoCkt, cur |-> NoCircuit,
   parked |-> [k \in { } |-> NoCkt], conn |-> [c \in Conns |-> NoConn],
   o |-> NoOracle, ntx |-> 0, tx |-> [c \in Conns |-> << >>],
   log |-> << >>, rx |-> << >>]

log_abort(P) == [P EXCEPT !.aborted = TRUE, !.ret = -1]

(* the process's live circuits other than the one under key `key` *)
Others(P, key) ==
  LET keep == (DOMAIN P.parked \cup (IF P.ckt.live THEN { P.cur } ELSE { }))
                \ { key }
  IN  [k \in keep |-> IF k \in DOMAIN P.parked THEN P.parked[k] ELSE P.ckt]

(* following the circuit table's pointer for `key` to a live circuit *)
Focus(P, key) ==
  IF P.ckt.live /\ P.cur = key THEN P
  ELSE [P EXCEPT !.ckt = P.parked[key], !.cur = key,
                 !.parked = Others(P, key)]

(* a circuit object just constructed, to be held under `key` *)
Fresh(P, key, id) ==
  [P EXCEPT !.ckt = NewCircuit(id), !.cur = key, !.parked = Others(P, key)]

(* the live circuits of a process, by id *)
Live(P) == Others(P, NoHandshake)

(* a callback of connection c works on the circuit c->upstream points to *)
Enter(P, c) ==
  IF ~P.conn[c].upstream \/ (P.ckt.live /\ c \in P.ckt.downstreams) THEN P
  ELSE Focus(P, CHOOSE k \in DOMAIN P.parked : c \in P.parked[k].downstreams)

(* a circuit_create that takes the first nonzero id it draws *)
RECURSIVE MCircuitCreateNoRedraw(_, _)
MCircuitCreateNoRedraw(P, draws) ==
  IF draws = << >> THEN P
  ELSE IF Head(draws) = 0
    THEN MCircuitCreateNoRedraw(P, Tail(draws))
  ELSE [Fresh(P, Head(draws), Head(draws)) EXCEPT
          !.circuits = (Head(draws) :> "live") @@ @]

(* chop_config_t::circuit_create() on the client, where `draws` is what    *)
(* rng_bytes returns, in order: an id of 0 is drawn again, and so is an id *)
(* that circuits.insert finds in the table                                 *)
RECURSIVE circuit_create(_, _)
circuit_create(P, draws) ==
  IF draws = << >> THEN P
  ELSE IF Head(draws) = 0 \/ Head(draws) \in DOMAIN P.circuits
    THEN circuit_create(P, Tail(draws))
  ELSE [Fresh(P, Head(draws), Head(draws)) EXCEPT
          !.circuits = (Head(draws) :> "live") @@ @]

Return(P, v) == [P EXCEPT !.ret = v]

(* --- the I/O framework's services, as the circuit and connection see them *)
conn_do_flush(P, c) == [P EXCEPT !.conn[c].flushing = TRUE]

conn_send_eof(P, c) == [P EXCEPT !.conn[c].sent_eof = TRUE]

circuit_do_flush(P) == [P EXCEPT !.ckt.flushing = TRUE]

circuit_recv_eof(P) == [P EXCEPT !.ckt.recv_eof = @ + 1]

circuit_arm_flush_timer(P) == [P EXCEPT !.ckt.flush_timer = TRUE]

circuit_disarm_flush_timer(P) == [P EXCEPT !.ckt.flush_timer = FALSE]

circuit_arm_axe_timer(P) == [P EXCEPT !.ckt.axe_timer = TRUE]

circuit_disarm_axe_timer(P) == [P EXCEPT !.ckt.axe_timer = FALSE]

circuit_reopen_downstreams(P) == [P EXCEPT !.ckt.reopen = TRUE]

(* a cease_transmission that does not mark the connection *)
MCeaseTransmissionNoMark(P, c) ==
  conn_do_flush([P EXCEPT !.conn[c].must_send_timer = FALSE], c)

(* chop_conn_t::cease_transmission() *)
cease_transmission(P, c) ==
  conn_do_flush([P EXCEPT !.conn[c].no_more_transmissions = TRUE,
                          !.conn[c].must_send_timer = FALSE], c)

(* steg_t::transmit_room(): a steg that has told its connection to cease   *)
(* transmission has no room                                                *)
transmit_room(P, c) ==
  IF P.conn[c].have_transmitted THEN 0 ELSE P.conn[c].room

(* steg_t::transmit(block): the block goes out on connection c, or fails *)
steg_transmit(P, c, blk) ==
  IF P.o.failat = P.ntx + 1
    THEN [P EXCEPT !.ntx = @ + 1, !.ret = -1]
    ELSE LET hinted(P1) ==
               IF P.o.cease
                 THEN [cease_transmission(P1, c) EXCEPT
                         !.conn[c].have_transmitted = TRUE]
                 ELSE P1
         IN  hinted([P EXCEPT !.ntx = @ + 1, !.ret = 0,
                              !.tx[c] = Append(@, blk),
                              !.conn[c].room = IF P.o.oneshot THEN 0 ELSE @])

(* chop_conn_t::must_send_p() *)
must_send_p(P, c) == P.conn[c].must_send_timer

(* a send that puts the circuit id before every block of a client          *)
MConnSendBlockAlwaysPrefix(P, c, blk) ==
  LET hs == P.mode # "server"
  IN  IF hs /\ (~P.conn[c].upstream \/ P.ckt.circuit_id = 0)
        THEN log_abort(P)
      ELSE
        LET b == IF hs THEN [blk EXCEPT !.hs = P.ckt.circuit_id] ELSE blk
            transmitted(P1) ==
              IF P1.ret # 0 THEN Return(P1, -1)
              ELSE [P1 EXCEPT !.conn[c].sent_handshake = TRUE,
                              !.conn[c].must_send_timer = FALSE,
                              !.ret = 0]
        IN  transmitted(steg_transmit(P, c, b))

(* chop_conn_t::send(evbuffer *block) *)
conn_send_block(P, c, blk) ==
  LET hs == ~P.conn[c].sent_handshake /\ P.mode # "server"
  IN  IF hs /\ (~P.conn[c].upstream \/ P.ckt.circuit_id = 0)
        THEN log_abort(P)
      ELSE IF hs /\ P.o.nomem = "prepend" THEN Return(P, -1)
      ELSE
        LET b == IF hs THEN [blk EXCEPT !.hs = P.ckt.circuit_id] ELSE blk
            transmitted(P1) ==
              IF P1.ret # 0 THEN Return(P1, -1)
              ELSE [P1 EXCEPT !.conn[c].sent_handshake = TRUE,
                              !.conn[c].must_send_timer = FALSE,
                              !.ret = 0]
        IN  transmitted(steg_transmit(P, c, b))

(* the end of send_targeted without send_seq++ *)
MBlockSentNoIncrement(P, d, f, payload) ==
  [P EXCEPT !.ckt.up_in = IF payload.ptr THEN evbuffer_drain(@, d) ELSE @,
            !.ckt.sent_fin = @ \/ (f = op_FIN),
            !.ret = 0]

(* the end of send_targeted(conn, d, p, f, payload), once the block has    *)
(* gone out: evbuffer_drain(payload, d); send_seq++; sent_fin              *)
block_sent(P, d, f, payload) ==
  [P EXCEPT !.ckt.up_in = IF payload.ptr THEN evbuffer_drain(@, d) ELSE @,
            !.ckt.send_seq = (@ + 1) % SeqMod,
            !.ckt.sent_fin = @ \/ (f = op_FIN),
            !.ret = 0]

(* a send_targeted that counts the block and drains its payload before it  *)
(* knows that the block has gone out                                       *)
MSendTargetedCountsFailure(P, c, d, p, f, payload) ==
  IF ~(payload.ptr \/ d = 0) \/ ~(d <= SECTION_LEN) \/ ~(p <= SECTION_LEN)
    THEN log_abort(P)
  ELSE IF P.o.nomem = "block"
    THEN Return(block_sent(P, d, f, payload), -1)
  ELSE
    LET hdr == block_header(P.ckt.send_seq, d, p, f)
    IN  IF ~valid(hdr, P.ckt.send_seq) THEN log_abort(P)
        ELSE IF payload.ptr /\ evbuffer_get_length(payload.bytes) < d
          THEN Return(P, -1)
        ELSE
          LET data == evbuffer_copyout(payload.bytes, d)
              entry == [conn |-> c, hdr |-> hdr, data |-> data,
                        avail |-> evbuffer_get_length(P.ckt.up_in),
                        eof |-> P.ckt.upstream_eof,
                        fin |-> P.ckt.sent_fin,
                        seq |-> P.ckt.send_seq,
                        special |-> ~payload.ptr]
              drained(P2) ==
                IF ~payload.ptr /\ P.o.nullub
                  THEN log_abort(P2)   \* evbuffer_drain(NULL, 0)
                ELSE block_sent(P2, d, f, payload)
              sent(P1) ==
                IF P1.aborted THEN Return(P1, -1)
                ELSE IF P1.ret # 0
                  THEN Return(block_sent(P1, d, f, payload), -1)
                ELSE drained([P1 EXCEPT !.log = Append(@, entry)])
          IN  sent(conn_send_block(P, c,
                     [hs |-> NoHandshake, hdr |-> hdr, data |-> data,
                      mac |-> TRUE]))

(* chop_circuit_t::send_targeted(conn, d, p, f, payload); payload is the   *)
(* upstream input buffer (EvBuf) or a null pointer (NullBuf)               *)
send_targeted_dpf(P, c, d, p, f, payload) ==
  IF ~(payload.ptr \/ d = 0) \/ ~(d <= SECTION_LEN) \/ ~(p <= SECTION_LEN)
    THEN log_abort(P)
  ELSE IF P.o.nomem = "block" THEN Return(P, -1)
  ELSE
    LET hdr == block_header(P.ckt.send_seq, d, p, f)
    IN  IF ~valid(hdr, P.ckt.send_seq) THEN log_abort(P)
        ELSE IF payload.ptr /\ evbuffer_get_length(payload.bytes) < d
          THEN Return(P, -1)
        ELSE
          LET data == evbuffer_copyout(payload.bytes, d)
              entry == [conn |-> c, hdr |-> hdr, data |-> data,
                        avail |-> evbuffer_get_length(P.ckt.up_in),
                        eof |-> P.ckt.upstream_eof,
                        fin |-> P.ckt.sent_fin,
                        seq |-> P.ckt.send_seq,
                        special |-> ~payload.ptr]
              drained(P2) ==
                IF ~payload.ptr /\ P.o.nullub
                  THEN log_abort(P2)   \* evbuffer_drain(NULL, 0)
                ELSE block_sent(P2, d, f, payload)
              sent(P1) ==
                IF P1.aborted \/ P1.ret # 0 THEN Return(P1, -1)
                ELSE drained([P1 EXCEPT !.log = Append(@, entry)])
          IN  sent(conn_send_block(P, c,
                     [hs |-> NoHandshake, hdr |-> hdr, data |-> data,
                      mac |-> TRUE]))

(* send_targeted(conn, blocksize) that marks FIN whenever the upstream    *)
(* has reached EOF, whether or not the block drains the buffer            *)
MSendTargetedFinAtEof(P, c, blocksize) ==
  IF ~(blocksize >= MIN_BLOCK_SIZE /\ blocksize <= MAX_BLOCK_SIZE)
    THEN log_abort(P)
  ELSE
    LET len   == evbuffer_get_length(P.ckt.up_in)
        avail == IF len > SECTION_LEN THEN SECTION_LEN ELSE len
        op    == IF P.ckt.upstream_eof /\ ~P.ckt.sent_fin THEN op_FIN
                 ELSE op_DAT
        p     == ((blocksize - MIN_BLOCK_SIZE) - avail) % SizeMod
    IN  send_targeted_dpf(P, c, avail, p, op, EvBuf(P.ckt.up_in))

(* chop_circuit_t::send_targeted(conn, blocksize) *)
send_targeted_size(P, c, blocksize) ==
  IF ~(blocksize >= MIN_BLOCK_SIZE /\ blocksize <= MAX_BLOCK_SIZE)
    THEN log_abort(P)
  ELSE
    LET len   == evbuffer_get_length(P.ckt.up_in)
        avail == IF len > SECTION_LEN THEN SECTION_LEN ELSE len
        op    == IF len > SECTION_LEN THEN op_DAT
                 ELSE IF P.ckt.upstream_eof /\ ~P.ckt.sent_fin THEN op_FIN
                 ELSE op_DAT
        p     == ((blocksize - MIN_BLOCK_SIZE) - avail) % SizeMod
    IN  send_targeted_dpf(P, c, avail, p, op, EvBuf(P.ckt.up_in))

(* chop_circuit_t::send_targeted(conn) *)
send_targeted_conn(P, c) ==
  LET len   == evbuffer_get_length(P.ckt.up_in)
      avail == (IF len > SECTION_LEN THEN SECTION_LEN ELSE len) + MIN_BLOCK_SIZE
      room  == transmit_room(P, c)
  IN  IF room < MIN_BLOCK_SIZE THEN Return(P, -1)
      ELSE send_targeted_size(P, c, IF room < avail THEN room ELSE avail)

(* the loop of pick_connection over the downstreams still to visit *)
RECURSIVE pick_scan(_, _, _, _)
pick_scan(P, todo, desired, acc) ==
  IF todo = << >> THEN acc
  ELSE
    LET c == Head(todo)
    IN  IF c \notin P.ckt.downstreams \/ ~P.conn[c].steg
          THEN pick_scan(P, Tail(todo), desired, acc)
        ELSE
          LET r0   == transmit_room(P, c)
              r1   == IF r0 <= MIN_BLOCK_SIZE THEN 0 ELSE r0
              room == IF r1 > MAX_BLOCK_SIZE THEN MAX_BLOCK_SIZE ELSE r1
              acc1 == IF room >= desired
                        THEN IF room < acc.minabove
                               THEN [acc EXCEPT !.minabove = room,
                                                !.targabove = c]
                               ELSE acc
                        ELSE IF room > acc.maxbelow
                               THEN [acc EXCEPT !.maxbelow = room,
                                                !.targbelow = c]
                               ELSE acc
          IN  pick_scan(P, Tail(todo), desired, acc1)

NoTarget == 0

(* pick_connection() that prefers the largest room below the desire *)
MPickConnectionLargestFirst(P, desired) ==
  LET want == (IF desired > SECTION_LEN THEN SECTION_LEN ELSE desired)
                + MIN_BLOCK_SIZE
      scanned(acc) ==
        IF acc.targbelow # NoTarget
          THEN [conn |-> acc.targbelow, blocksize |-> acc.maxbelow]
          ELSE IF acc.targabove # NoTarget
            THEN [conn |-> acc.targabove, blocksize |-> want]
          ELSE [conn |-> NoTarget, blocksize |-> 0]
  IN  scanned(pick_scan(P, P.o.ord, want,
                        [maxbelow |-> 0, minabove |-> MAX_BLOCK_SIZE + 1,
                         targbelow |-> NoTarget, targabove |-> NoTarget]))

(* chop_circuit_t::pick_connection(desired, &blocksize): [conn, blocksize] *)
pick_connection(P, desired) ==
  LET want == (IF desired > SECTION_LEN THEN SECTION_LEN ELSE desired)
                + MIN_BLOCK_SIZE
      scanned(acc) ==
        IF acc.targabove # NoTarget
          THEN [conn |-> acc.targabove, blocksize |-> want]
          ELSE [conn |-> acc.targbelow, blocksize |-> acc.maxbelow]
  IN  scanned(pick_scan(P, P.o.ord, want,
                        [maxbelow |-> 0, minabove |-> MAX_BLOCK_SIZE + 1,
                         targbelow |-> NoTarget, targabove |-> NoTarget]))

(* chop_circuit_t::send_special(f, payload) with payload = 0 *)
send_special(P, f) ==
  LET d == 0
      targeted(pick) ==
        IF pick.conn = NoTarget
             \/ (pick.blocksize - MIN_BLOCK_SIZE) % SizeMod < d
          THEN Return(P, -1)
          ELSE send_targeted_dpf(P, pick.conn, d,
                 ((pick.blocksize - MIN_BLOCK_SIZE) - d) % SizeMod, f, NullBuf)
  IN  targeted(pick_connection(P, d))

(* chop_conn_t::send(): the must-send path *)
conn_send(P, c) ==
  LET P0 == [P EXCEPT !.conn[c].must_send_timer = FALSE]
      \* no upstream: MIN_BLOCK_SIZE random bytes straight to the steg
      chaff == [hs |-> NoHandshake, hdr |-> InvalidHeader,
                data |-> << >>, mac |-> FALSE]
      sent(P1) ==
        IF P1.aborted THEN P1
        ELSE IF P1.ret # 0 THEN conn_do_flush(P1, c) ELSE P1
  IN  IF ~P0.conn[c].steg THEN conn_do_flush(P0, c)
      ELSE IF P0.conn[c].upstream THEN sent(send_targeted_conn(P0, c))
      ELSE IF transmit_room(P0, c) < MIN_BLOCK_SIZE THEN conn_do_flush(P0, c)
      ELSE sent(steg_transmit(P0, c, chaff))

(* the loop of check_for_eof over the downstreams still to visit *)
RECURSIVE eof_scan(_, _)
eof_scan(P, todo) ==
  IF todo = << >> \/ P.aborted THEN P
  ELSE
    LET c == Head(todo)
    IN  IF c \notin P.ckt.downstreams THEN eof_scan(P, Tail(todo))
        ELSE LET flushed(P1) ==
                   IF P1.aborted THEN P1
                   ELSE eof_scan(conn_send_eof(P1, c), Tail(todo))
             IN  flushed(IF must_send_p(P, c) THEN conn_send(P, c) ELSE P)

(* a check_for_eof that arms no timer *)
MCheckForEofNoWakeUp(P) ==
  IF P.ckt.sent_fin /\ P.ckt.received_fin
    THEN LET closed(P1) == IF P1.aborted THEN P1 ELSE Return(P1, 0)
         IN  closed(eof_scan(circuit_disarm_flush_timer(P), P.o.ord))
  ELSE Return(P, 0)

(* chop_circuit_t::check_for_eof() *)
check_for_eof(P) ==
  IF P.ckt.sent_fin /\ P.ckt.received_fin
    THEN LET closed(P1) == IF P1.aborted THEN P1 ELSE Return(P1, 0)
         IN  closed(eof_scan(circuit_disarm_flush_timer(P), P.o.ord))
  ELSE IF P.mode # "server" THEN Return(circuit_arm_flush_timer(P), 0)
  ELSE Return(P, 0)

(* the do ... while (avail > 0) loop of chop_circuit_t::send() *)
RECURSIVE send_loop(_)
send_loop(P) ==
  LET avail == evbuffer_get_length(P.ckt.up_in)
      sent(P1) ==
        IF P1.aborted \/ P1.ret # 0 THEN Return(P1, -1)
        ELSE IF evbuffer_get_length(P1.ckt.up_in) > 0 THEN send_loop(P1)
        ELSE Return(P1, 0)
      targeted(pick) ==
        IF pick.conn = NoTarget THEN Return(P, 0)
        ELSE sent(send_targeted_size(P, pick.conn, pick.blocksize))
  IN  targeted(pick_connection(P, avail))

(* chop_circuit_t::send() *)
send(P) ==
  LET P0 == circuit_disarm_flush_timer(P)
  IN  IF P0.ckt.downstreams = { }
        THEN IF P0.mode # "server"
               THEN Return(circuit_reopen_downstreams(P0), 0)
               ELSE Return(circuit_arm_axe_timer(P0), 0)
      ELSE
        LET avail0 == evbuffer_get_length(P0.ckt.up_in)
            looped(P1) ==
              IF P1.aborted \/ P1.ret # 0 THEN P1
              ELSE check_for_eof(
                     [P1 EXCEPT !.ckt.dead_cycles =
                        IF avail0 > evbuffer_get_length(P1.ckt.up_in)
                          THEN 0 ELSE @ + 1])
        IN  looped(send_loop(P0))

(* chop_circuit_t::send_eof() *)
send_eof(P) == send([P EXCEPT !.ckt.upstream_eof = TRUE])

(* a process_queue that answers every first error, whatever the opcode of *)
(* the block, with an RST                                                  *)
MProcessBlockAlwaysRst(P, blk, st) ==
  LET len     == evbuffer_get_length(blk.data.bytes)
      dupfin  == blk.op = op_FIN /\ P.ckt.received_fin
      datlike == (blk.op = op_FIN /\ ~dupfin) \/ blk.op = op_DAT
      deliver == datlike /\ len > 0 /\ ~P.ckt.received_fin
      pfin    == st.pending_fin \/ (blk.op = op_FIN /\ ~dupfin)
      perr    == \/ st.pending_error
                 \/ dupfin
                 \/ (datlike /\ len > 0 /\ P.ckt.received_fin)
                 \/ ~datlike
      \* the switch
      P1 == IF deliver
              THEN [P EXCEPT !.ckt.up_out = evbuffer_add_buffer(@, blk.data.bytes),
                             !.ckt.up_unflushed = @ + len]
            ELSE IF blk.op = op_RST THEN circuit_recv_eof(P)
            ELSE P
      \* if (pending_fin && !received_fin)
      P2 == IF pfin /\ ~P1.ckt.received_fin
              THEN [circuit_recv_eof(P1) EXCEPT !.ckt.received_fin = TRUE]
              ELSE P1
      \* if (pending_error && !sent_error)
      rst == perr /\ ~st.sent_error
      P3 == IF rst THEN send_special(P2, op_RST) ELSE P2
  IN  [P  |-> P3,
       st |-> [count |-> st.count + 1, pending_fin |-> pfin,
               pending_error |-> perr, sent_error |-> st.sent_error \/ rst]]

(* a process_queue that signals the end of file for a FIN but does not    *)
(* mark the circuit as having received it                                  *)
MProcessBlockFinNotMarked(P, blk, st) ==
  LET len     == evbuffer_get_length(blk.data.bytes)
      dupfin  == blk.op = op_FIN /\ P.ckt.received_fin
      datlike == (blk.op = op_FIN /\ ~dupfin) \/ blk.op = op_DAT
      deliver == datlike /\ len > 0 /\ ~P.ckt.received_fin
      pfin    == st.pending_fin \/ (blk.op = op_FIN /\ ~dupfin)
      perr    == \/ st.pending_error
                 \/ dupfin
                 \/ (datlike /\ len > 0 /\ P.ckt.received_fin)
                 \/ ~datlike
      \* the switch
      P1 == IF deliver
              THEN [P EXCEPT !.ckt.up_out = evbuffer_add_buffer(@, blk.data.bytes),
                             !.ckt.up_unflushed = @ + len]
            ELSE IF blk.op = op_RST THEN circuit_recv_eof(P)
            ELSE P
      \* if (pending_fin && !received_fin)
      P2 == IF pfin /\ ~P1.ckt.received_fin
              THEN circuit_recv_eof(P1)
              ELSE P1
      \* if (pending_error && !sent_error)
      rst == perr /\ ~st.sent_error
      P3 == IF rst /\ blk.op # op_RST /\ blk.op # op_FIN
              THEN send_special(P2, op_RST) ELSE P2
  IN  [P  |-> P3,
       st |-> [count |-> st.count + 1, pending_fin |-> pfin,
               pending_error |-> perr, sent_error |-> st.sent_error \/ rst]]

(* a process_queue that takes a block without data after a FIN for data   *)
(* after a FIN                                                             *)
MProcessBlockChaffAfterFin(P, blk, st) ==
  LET len     == evbuffer_get_length(blk.data.bytes)
      dupfin  == blk.op = op_FIN /\ P.ckt.received_fin
      datlike == (blk.op = op_FIN /\ ~dupfin) \/ blk.op = op_DAT
      deliver == datlike /\ len > 0 /\ ~P.ckt.received_fin
      pfin    == st.pending_fin \/ (blk.op = op_FIN /\ ~dupfin)
      perr    == \/ st.pending_error
                 \/ dupfin
                 \/ (datlike /\ P.ckt.received_fin)
                 \/ ~datlike
      \* the switch
      P1 == IF deliver
              THEN [P EXCEPT !.ckt.up_out = evbuffer_add_buffer(@, blk.data.bytes),
                             !.ckt.up_unflushed = @ + len]
            ELSE IF blk.op = op_RST THEN circuit_recv_eof(P)
            ELSE P
      \* if (pending_fin && !received_fin)
      P2 == IF pfin /\ ~P1.ckt.received_fin
              THEN [circuit_recv_eof(P1) EXCEPT !.ckt.received_fin = TRUE]
              ELSE P1
      \* if (pending_error && !sent_error)
      rst == perr /\ ~st.sent_error
      P3 == IF rst /\ blk.op # op_RST /\ blk.op # op_FIN
              THEN send_special(P2, op_RST) ELSE P2
  IN  [P  |-> P3,
       st |-> [count |-> st.count + 1, pending_fin |-> pfin,
               pending_error |-> perr, sent_error |-> st.sent_error \/ rst]]

(* what process_queue does with one dequeued block; st holds the locals   *)
(* count, pending_fin, pending_error, sent_error                           *)
process_block(P, blk, st) ==
  LET len     == evbuffer_get_length(blk.data.bytes)
      dupfin  == blk.op = op_FIN /\ P.ckt.received_fin
      datlike == (blk.op = op_FIN /\ ~dupfin) \/ blk.op = op_DAT
      deliver == datlike /\ len > 0 /\ ~P.ckt.received_fin
      pfin    == st.pending_fin \/ (blk.op = op_FIN /\ ~dupfin)
      perr    == \/ st.pending_error
                 \/ dupfin
                 \/ (datlike /\ len > 0 /\ P.ckt.received_fin)
                 \/ ~datlike
      \* the switch
      P1 == IF deliver
              THEN [P EXCEPT !.ckt.up_out = evbuffer_add_buffer(@, blk.data.bytes),
                             !.ckt.up_unflushed = @ + len]
            ELSE IF blk.op = op_RST THEN circuit_recv_eof(P)
            ELSE P
      \* if (pending_fin && !received_fin)
      P2 == IF pfin /\ ~P1.ckt.received_fin
              THEN [circuit_recv_eof(P1) EXCEPT !.ckt.received_fin = TRUE]
              ELSE P1
      \* if (pending_error && !sent_error)
      rst == perr /\ ~st.sent_error
      P3 == IF rst /\ blk.op # op_RST /\ blk.op # op_FIN
              THEN send_special(P2, op_RST) ELSE P2
  IN  [P  |-> P3,
       st |-> [count |-> st.count + 1, pending_fin |-> pfin,
               pending_error |-> perr, sent_error |-> st.sent_error \/ rst]]

(* the while loop of process_queue *)
RECURSIVE process_loop(_, _)
process_loop(P, st) ==
  LET r == remove_next(P.ckt.recv_queue)
  IN  IF ~r.rv.data.ptr \/ P.aborted THEN [P |-> P, st |-> st]
      ELSE
        LET P0 == [P EXCEPT !.ckt.recv_queue = r.q,
                      !.rx = Append(@, [seq |-> window(P.ckt.recv_queue),
                                        op |-> r.rv.op,
                                        data |-> r.rv.data.bytes,
                                        fin |-> P.ckt.received_fin])]
            next(n) == process_loop(n.P, n.st)
        IN  next(process_block(P0, r.rv, st))

(* a process_queue that leaves dead_cycles alone *)
MProcessQueueKeepDeadCycles(P) ==
  LET counted(P1, sent_error) ==
        IF P1.aborted THEN P1
        ELSE IF sent_error THEN Return(P1, -1)
        ELSE IF evbuffer_get_length(P1.ckt.up_in) > 0
                  \/ (P1.ckt.upstream_eof /\ ~P1.ckt.sent_fin)
          THEN send(P1)
        ELSE check_for_eof(P1)
      looped(r) ==
        counted(r.P, r.st.sent_error)
  IN  looped(process_loop(P, [count |-> 0, pending_fin |-> FALSE,
                              pending_error |-> FALSE, sent_error |-> FALSE]))

(* chop_circuit_t::process_queue() *)
process_queue(P) ==
  LET counted(P1, sent_error) ==
        IF P1.aborted THEN P1
        ELSE IF sent_error THEN Return(P1, -1)
        ELSE IF evbuffer_get_length(P1.ckt.up_in) > 0
                  \/ (P1.ckt.upstream_eof /\ ~P1.ckt.sent_fin)
          THEN send(P1)
        ELSE check_for_eof(P1)
      looped(r) ==
        counted(IF r.st.count > 0 /\ ~r.P.aborted
                  THEN [r.P EXCEPT !.ckt.dead_cycles = 0] ELSE r.P,
                r.st.sent_error)
  IN  looped(process_loop(P, [count |-> 0, pending_fin |-> FALSE,
                              pending_error |-> FALSE, sent_error |-> FALSE]))

(* an add_downstream that leaves the axe timer alone *)
MAddDownstreamKeepAxe(P, c) ==
  IF ~P.conn[c].live \/ P.conn[c].upstream THEN log_abort(P)
  ELSE [P EXCEPT !.conn[c].upstream = TRUE,
                 !.ckt.downstreams = @ \cup { c }]

(* chop_circuit_t::add_downstream(conn) *)
add_downstream(P, c) ==
  IF ~P.conn[c].live \/ P.conn[c].upstream THEN log_abort(P)
  ELSE circuit_disarm_axe_timer(
         [P EXCEPT !.conn[c].upstream = TRUE,
                   !.ckt.downstreams = @ \cup { c }])

(* the loop of ~chop_circuit_t over the downstreams *)
RECURSIVE detach_scan(_, _)
detach_scan(P, todo) ==
  IF todo = << >> THEN P
  ELSE
    LET c == Head(todo)
    IN  IF c \notin P.ckt.downstreams THEN detach_scan(P, Tail(todo))
        ELSE
          LET P1 == [P EXCEPT !.conn[c].upstream = FALSE]
              \* outbound() still holds what this handler has transmitted
              P2 == IF P1.tx[c] # << >> THEN conn_do_flush(P1, c)
                    ELSE [P1 EXCEPT !.conn[c] = NoConn]   \* delete conn
          IN  detach_scan(P2, Tail(todo))

(* chop_circuit_t::~chop_circuit_t() *)
circuit_delete(P) ==
  LET id == P.ckt.circuit_id
      detached(P1) ==
        IF id \notin DOMAIN P1.circuits \/ P1.circuits[id] # "live"
             \/ P1.cur # id
          THEN log_abort(P1)
          ELSE [P1 EXCEPT !.circuits[id] = "null",
                          !.ckt.live = FALSE, !.ckt.downstreams = { },
                          !.ckt.flush_timer = FALSE, !.ckt.axe_timer = FALSE]
  IN  detached(detach_scan(P, P.o.ord))

(* a drop_downstream that deletes the circuit without looking at what is   *)
(* still waiting in the upstream output                                    *)
MDropDownstreamNoDrain(P, c) ==
  IF ~P.conn[c].live \/ ~P.conn[c].upstream THEN log_abort(P)
  ELSE
    LET P1 == [P EXCEPT !.conn[c].upstream = FALSE,
                        !.ckt.downstreams = @ \ { c }]
    IN  IF P1.ckt.downstreams # { } THEN P1
        ELSE IF P1.ckt.sent_fin /\ P1.ckt.received_fin
          THEN circuit_delete(P1)
        ELSE IF P1.mode = "server" THEN circuit_arm_axe_timer(P1)
        ELSE circuit_arm_flush_timer(P1)

(* a drop_downstream that leaves the connection in the downstream set *)
MDropDownstreamNoErase(P, c) ==
  IF ~P.conn[c].live \/ ~P.conn[c].upstream THEN log_abort(P)
  ELSE
    LET P1 == [P EXCEPT !.conn[c].upstream = FALSE]
    IN  IF P1.ckt.downstreams # { } THEN P1
        ELSE IF P1.ckt.sent_fin /\ P1.ckt.received_fin
          THEN IF P1.ckt.up_unflushed > 0 THEN circuit_do_flush(P1)
               ELSE circuit_delete(P1)
        ELSE IF P1.mode = "server" THEN circuit_arm_axe_timer(P1)
        ELSE circuit_arm_flush_timer(P1)

(* chop_circuit_t::drop_downstream(conn) *)
drop_downstream(P, c) ==
  IF ~P.conn[c].live \/ ~P.conn[c].upstream THEN log_abort(P)
  ELSE
    LET P1 == [P EXCEPT !.conn[c].upstream = FALSE,
                        !.ckt.downstreams = @ \ { c }]
    IN  IF P1.ckt.downstreams # { } THEN P1
        ELSE IF P1.ckt.sent_fin /\ P1.ckt.received_fin
          THEN IF P1.ckt.up_unflushed > 0 THEN circuit_do_flush(P1)
               ELSE circuit_delete(P1)
        ELSE IF P1.mode = "server" THEN circuit_arm_axe_timer(P1)
        ELSE circuit_arm_flush_timer(P1)

(* chop_conn_t::~chop_conn_t() *)
conn_delete(P, c) ==
  LET dropped(P1) == IF P1.aborted THEN P1 ELSE [P1 EXCEPT !.conn[c] = NoConn]
  IN  dropped(IF P.conn[c].upstream THEN drop_downstream(P, c) ELSE P)

(* recv_handshake() where circuit_open_upstream has failed for the circuit *)
(* it has just created for the unseen `id`: circuits.insert has put        *)
(* (id, 0) into the table, and neither ck->circuit_id nor the table entry  *)
(* has been set                                                            *)
Unopened(P, id) ==
  [Fresh(P, id, P.o.junk) EXCEPT !.circuits = (id :> "null") @@ @]

(* the bytes of a block on the wire: the four bytes of the circuit id if   *)
(* it carries them, and the block; the chaff of a connection without a     *)
(* circuit is MIN_BLOCK_SIZE bytes                                         *)
wire_len(blk) ==
  (IF blk.hs # NoHandshake THEN 4 ELSE 0)
    + (IF blk.hdr = InvalidHeader THEN MIN_BLOCK_SIZE ELSE total_len(blk.hdr))

(* evbuffer_get_length(recv_pending), as far as the first block in it goes: *)
(* of the last block in it recv_short bytes are still to come               *)
pending_avail(P, c) ==
  wire_len(Head(P.conn[c].recv_pending))
    - (IF Len(P.conn[c].recv_pending) = 1 THEN P.conn[c].recv_short ELSE 0)

(* a recv_handshake that waits for the rest of a circuit id of which only  *)
(* a part has arrived                                                      *)
MRecvHandshakeWaits(P, c) ==
  IF P.conn[c].upstream \/ P.mode # "server" THEN log_abort(P)
  ELSE IF P.conn[c].recv_pending = << >> THEN Return(P, -1)
  ELSE IF pending_avail(P, c) < 4 THEN Return(P, 0)
  ELSE
    LET first == Head(P.conn[c].recv_pending)
        id    == first.hs
        rest  == << [first EXCEPT !.hs = NoHandshake] >>
                   \o Tail(P.conn[c].recv_pending)
        P1    == [P EXCEPT !.conn[c].recv_pending = rest]
        deleted(P2) == IF P2.aborted THEN P2 ELSE Return(P2, -1)
    IN  IF id \in DOMAIN P1.circuits
          THEN IF P1.circuits[id] = "null" THEN Return(P1, 0)
               ELSE Return(add_downstream(Focus(P1, id), c), 0)
        ELSE IF P1.o.nomem = "upstream"
          THEN deleted(circuit_delete(Unopened(P1, id)))
          ELSE Return(add_downstream(
                        [Fresh(P1, id, id) EXCEPT
                           !.circuits = (id :> "live") @@ @], c), 0)

(* a recv_handshake that makes a new circuit for an id whose circuit is    *)
(* live                                                                    *)
MRecvHandshakeAlwaysCreate(P, c) ==
  IF P.conn[c].upstream \/ P.mode # "server" THEN log_abort(P)
  ELSE IF P.conn[c].recv_pending = << >> THEN Return(P, -1)
  ELSE
    LET first == Head(P.conn[c].recv_pending)
        id    == first.hs
        rest  == << [first EXCEPT !.hs = NoHandshake] >>
                   \o Tail(P.conn[c].recv_pending)
        P1    == [P EXCEPT !.conn[c].recv_pending = rest]
    IN  IF id \in DOMAIN P1.circuits /\ P1.circuits[id] = "null"
          THEN Return(P1, 0)
          ELSE Return(add_downstream(
                        [Fresh(P1, id, id) EXCEPT
                           !.circuits = (id :> "live") @@ @], c), 0)

(* chop_conn_t::recv_handshake() *)
recv_handshake(P, c) ==
  IF P.conn[c].upstream \/ P.mode # "server" THEN log_abort(P)
  ELSE IF P.conn[c].recv_pending = << >> THEN Return(P, -1)
  ELSE IF pending_avail(P, c) < 4
    \* evbuffer_remove has taken the bytes there were
    THEN Return([P EXCEPT !.conn[c].recv_pending = << >>,
                          !.conn[c].recv_short = 0], -1)
  ELSE
    LET first == Head(P.conn[c].recv_pending)
        id    == first.hs
        rest  == << [first EXCEPT !.hs = NoHandshake] >>
                   \o Tail(P.conn[c].recv_pending)
        P1    == [P EXCEPT !.conn[c].recv_pending = rest]
        deleted(P2) == IF P2.aborted THEN P2 ELSE Return(P2, -1)
    IN  IF id \in DOMAIN P1.circuits
          THEN IF P1.circuits[id] = "null" THEN Return(P1, 0)  \* stale
               ELSE Return(add_downstream(Focus(P1, id), c), 0)
        ELSE IF P1.o.nomem = "upstream"
          THEN deleted(circuit_delete(Unopened(P1, id)))       \* delete ck
          ELSE \* circuit_create, circuit_open_upstream, then the id is set
               Return(add_downstream(
                        [Fresh(P1, id, id) EXCEPT
                           !.circuits = (id :> "live") @@ @], c), 0)

(* a recv loop that does not verify the tag of a block *)
RECURSIVE MRecvLoopNoMac(_, _)
MRecvLoopNoMac(P, c) ==
  IF P.conn[c].recv_pending = << >> THEN Return(P, 0)
  ELSE
    LET blk == Head(P.conn[c].recv_pending)
        hdr == blk.hdr
    IN  IF ~valid(hdr, window(P.ckt.recv_queue)) THEN Return(P, -1)
        ELSE
          LET P1 == [P EXCEPT !.conn[c].recv_pending = Tail(@)]
          IN  IF FALSE THEN Return(P1, -1)
              ELSE
                LET r == insert(P1.ckt.recv_queue, hdr.s, hdr.f,
                                evbuffer_copyout(blk.data, hdr.d))
                IN  IF ~r.ok THEN Return(P1, -1)
                    ELSE MRecvLoopNoMac([P1 EXCEPT !.ckt.recv_queue = r.q], c)

(* a recv loop that throws away the part of a block that has arrived *)
RECURSIVE MRecvLoopDropsFragment(_, _)
MRecvLoopDropsFragment(P, c) ==
  IF P.conn[c].recv_pending = << >> THEN Return(P, 0)
  ELSE
    LET blk == Head(P.conn[c].recv_pending)
        hdr == blk.hdr
    IN  IF pending_avail(P, c) < MIN_BLOCK_SIZE THEN Return(P, 0)
        ELSE IF ~valid(hdr, window(P.ckt.recv_queue)) THEN Return(P, -1)
        ELSE IF pending_avail(P, c) < total_len(hdr)
          THEN Return([P EXCEPT !.conn[c].recv_pending = Tail(@),
                                !.conn[c].recv_short = 0], 0)
        ELSE
          LET P1 == [P EXCEPT !.conn[c].recv_pending = Tail(@)]
          IN  IF ~blk.mac THEN Return(P1, -1)
              ELSE
                LET r == insert(P1.ckt.recv_queue, hdr.s, hdr.f,
                                evbuffer_copyout(blk.data, hdr.d))
                IN  IF ~r.ok THEN Return(P1, -1)
                    ELSE MRecvLoopDropsFragment(
                           [P1 EXCEPT !.ckt.recv_queue = r.q], c)

(* the for (;;) loop of chop_conn_t::recv() *)
RECURSIVE recv_loop(_, _)
recv_loop(P, c) ==
  IF P.conn[c].recv_pending = << >> THEN Return(P, 0)
  ELSE
    LET blk == Head(P.conn[c].recv_pending)
        hdr == blk.hdr
    IN  IF pending_avail(P, c) < MIN_BLOCK_SIZE
          THEN Return(P, 0)                     \* incomplete block framing
        ELSE IF ~valid(hdr, window(P.ckt.recv_queue)) THEN Return(P, -1)
        ELSE IF pending_avail(P, c) < total_len(hdr)
          THEN Return(P, 0)                     \* incomplete block
        ELSE
          LET P1 == [P EXCEPT !.conn[c].recv_pending = Tail(@)]
          IN  IF ~blk.mac THEN Return(P1, -1)   \* MAC verification failure
              ELSE
                LET r == insert(P1.ckt.recv_queue, hdr.s, hdr.f,
                                evbuffer_copyout(blk.data, hdr.d))
                IN  IF ~r.ok THEN Return(P1, -1)
                    ELSE recv_loop([P1 EXCEPT !.ckt.recv_queue = r.q], c)

(* a recv that answers a stale circuit whether or not the steg asked for a *)
(* reply                                                                   *)
MRecvStaleAlwaysReply(P, c) ==
  LET flushed(P3) ==
        IF P3.aborted THEN P3 ELSE Return(conn_do_flush(P3, c), 0)
      stale(P2) == flushed(conn_send(P2, c))
      queued(P2) == IF P2.ret # 0 THEN P2 ELSE process_queue(P2)
      shaken(P1) ==
        IF P1.aborted THEN P1
        ELSE IF P1.ret # 0 THEN Return(P1, -1)
        ELSE IF ~P1.conn[c].upstream
          THEN stale([P1 EXCEPT !.conn[c].recv_pending = << >>])
        ELSE queued(recv_loop(P1, c))
  IN  shaken(IF ~P.conn[c].upstream THEN recv_handshake(P, c)
             ELSE Return(P, 0))

(* chop_conn_t::recv(), after steg->receive has filled recv_pending *)
recv(P, c) ==
  LET flushed(P3) ==
        IF P3.aborted THEN P3 ELSE Return(conn_do_flush(P3, c), 0)
      stale(P2) ==
        flushed(IF must_send_p(P2, c) THEN conn_send(P2, c) ELSE P2)
      queued(P2) == IF P2.ret # 0 THEN P2 ELSE process_queue(P2)
      shaken(P1) ==
        IF P1.aborted THEN P1
        ELSE IF P1.ret # 0 THEN Return(P1, -1)
        ELSE IF ~P1.conn[c].upstream
          THEN stale([P1 EXCEPT !.conn[c].recv_pending = << >>])
        ELSE queued(recv_loop(P1, c))
  IN  shaken(IF ~P.conn[c].upstream THEN recv_handshake(P, c)
             ELSE Return(P, 0))

(* steg->receive(recv_pending) at the head of recv(): what it takes out of *)
(* the inbound buffer is in recv_pending; it may leave bytes behind        *)
steg_receive(P, c) ==
  [P EXCEPT !.conn[c].inbound = IF P.o.behind THEN 1 ELSE 0]

(* a recv_eof that drops the connection whatever the must-send timer *)
MRecvEofIgnoresTimer(P, c) ==
  LET dropped(P2) == IF P2.aborted THEN P2 ELSE Return(P2, 0)
      received(P1) ==
        IF P1.aborted THEN P1
        ELSE IF P1.ret # 0 \/ P1.conn[c].inbound > 0 THEN Return(P1, -1)
        ELSE IF P1.conn[c].upstream
                  /\ (P1.ckt.sent_fin \/ P1.conn[c].no_more_transmissions)
          THEN dropped(drop_downstream(P1, c))
        ELSE Return(P1, 0)
  IN  received(IF P.conn[c].inbound > 0 THEN recv(steg_receive(P, c), c)
               ELSE Return(P, 0))

(* chop_conn_t::recv_eof(); the blocks that steg->receive takes out of the *)
(* inbound buffer are in recv_pending already                              *)
recv_eof(P, c) ==
  LET dropped(P2) == IF P2.aborted THEN P2 ELSE Return(P2, 0)
      received(P1) ==
        IF P1.aborted THEN P1
        ELSE IF P1.ret # 0 \/ P1.conn[c].inbound > 0 THEN Return(P1, -1)
        ELSE IF P1.conn[c].upstream
                  /\ (P1.ckt.sent_fin \/ P1.conn[c].no_more_transmissions)
                  /\ ~must_send_p(P1, c)
          THEN dropped(drop_downstream(P1, c))
        ELSE Return(P1, 0)
  IN  received(IF P.conn[c].inbound > 0 THEN recv(steg_receive(P, c), c)
               ELSE Return(P, 0))

(***************************************************************************)
(* State.                                                                  *)
(*   proc    the two processes, "client" and "server"                      *)
(*   wire    wire[to][c]: the blocks in flight to process `to` on          *)
(*           connection c, in the order they were transmitted              *)
(*   written how many bytes each upstream has written so far               *)
(*   forged  how many blocks the network has repeated or made up           *)
(*   call    the last call observed: its name, the process as the call     *)
(*           found it and as it left it (before the framework reacts)      *)
(***************************************************************************)
VARIABLES proc, wire, written, forged, call

vars == << proc, wire, written, forged, call >>

Sides == { "client", "server" }

Peer(side) == IF side = "client" THEN "server" ELSE "client"

NoCall == [op |-> "none"]

(* the circuit id the client's circuit_create has drawn *)
ClientCircuit == 1

(* Bounds of the exploration *)
MaxBlocks == 3

MaxBytes == 3

MaxDeadCycles == 2

MaxForged == 1

(* circuit ids are drawn from 0 .. MaxId *)
MaxId == 2

(* circuits a client has open at a time *)
MaxCircuits == 2

Big == MAX_BLOCK_SIZE + 1

Room(r1, r2) == [c \in Conns |-> IF c = 1 THEN r1 ELSE r2]

(* what the environment answers during one handler: the room each        *)
(* connection's steg offers, and the rest of P.o                           *)
Env(room, failat, oneshot, nullub) ==
  [room |-> room, ord |-> << 1, 2 >>, failat |-> failat, oneshot |-> oneshot,
   nullub |-> nullub, cease |-> FALSE, nomem |-> "none", behind |-> FALSE,
   junk |-> 0]

Quiet(room) == Env(room, 0, FALSE, FALSE)

(* stegs that tell their connection to cease transmission once they have   *)
(* transmitted on it                                                       *)
Ceasing(room) == [Quiet(room) EXCEPT !.cease = TRUE]

(* a handler whose steg leaves inbound bytes behind *)
Stuck(room) == [Quiet(room) EXCEPT !.behind = TRUE]

(* a handler during which an allocation fails *)
Starved(room, what) == [Quiet(room) EXCEPT !.nomem = what]

(* a handler during which the upstream of a new circuit cannot be opened,  *)
(* and the circuit object's circuit_id reads as `junk` until it is set     *)
Orphaned(room, junk) ==
  [Quiet(room) EXCEPT !.nomem = "upstream", !.junk = junk]

(* a handler starts *)
Begin(P, env) ==
  [P EXCEPT !.o = [ord |-> env.ord, failat |-> env.failat,
                   oneshot |-> env.oneshot, nullub |-> env.nullub,
                   cease |-> env.cease, nomem |-> env.nomem,
                   behind |-> env.behind, junk |-> env.junk],
            !.conn = [c \in Conns |->
                        IF P.conn[c].live
                          THEN [P.conn[c] EXCEPT !.room = env.room[c]]
                          ELSE P.conn[c]],
            !.ntx = 0, !.ret = 0]

(* a handler returns to the event loop *)
Finish(P) ==
  [P EXCEPT !.o = NoOracle, !.ntx = 0, !.tx = [c \in Conns |-> << >>],
            !.conn = [c \in Conns |-> [P.conn[c] EXCEPT !.room = 0]]]

(* what the handler has transmitted goes onto the wire *)
Deliver(w, to, P) ==
  [w EXCEPT ![to] = [c \in Conns |-> w[to][c] \o P.tx[c]]]

(* the observation of one call *)
Observe(trace, op, side, c, P0, P1) ==
  IF trace
    THEN [op |-> op, side |-> side, conn |-> c, before |-> P0, after |-> P1]
    ELSE call

(* circuit_send / circuit_send_eof: a failed send() closes the circuit *)
circuit_send_result(P) ==
  IF ~P.aborted /\ P.ret # 0 THEN circuit_delete(P) ELSE P

(* downstream_read_cb: a failed recv() makes the framework delete the      *)
(* connection                                                              *)
downstream_read_result(P, c) ==
  IF ~P.aborted /\ P.ret # 0 THEN conn_delete(P, c) ELSE P

Running(side) == ~proc[side].aborted

CanSend(side) ==
  /\ Running(side)
  /\ proc[side].ckt.live
  /\ proc[side].ckt.send_seq < MaxBlocks
  /\ proc[side].ckt.dead_cycles < MaxDeadCycles

Init ==
  /\ proc = [side \in Sides |->
               IF side = "client"
                 THEN [NewProc("client") EXCEPT
                         !.ckt = NewCircuit(ClientCircuit),
                         !.cur = ClientCircuit,
                         !.circuits = (ClientCircuit :> "live")]
                 ELSE NewProc("server")]
  /\ wire = [side \in Sides |-> [c \in Conns |-> << >>]]
  /\ written = [side \in Sides |-> 0]
  /\ forged = 0
  /\ call = NoCall

(* the client opens connection c: both ends are created, the client's end  *)
(* joins its circuit, and once connected the client's handshake() runs     *)
Connect(c, envs, trace) ==
  /\ Running("client") /\ Running("server")
  /\ CanSend("client")
  /\ ~proc["client"].conn[c].live /\ ~proc["server"].conn[c].live
  /\ wire["client"][c] = << >> /\ wire["server"][c] = << >>
  /\ \E env \in envs :
       \E P2 \in { Begin(add_downstream(
                            [proc["client"] EXCEPT !.conn[c] = NewConn], c),
                          env) } :
         \* chop_conn_t::handshake()
         \E P3 \in { IF ~P2.conn[c].sent_handshake THEN conn_send(P2, c)
                     ELSE P2 } :
           /\ proc' = [proc EXCEPT !["client"] = Finish(P3),
                                   !["server"].conn[c] = NewConn]
           /\ wire' = Deliver(wire, "server", P3)
           /\ call' = Observe(trace, "handshake", "client", c, P2, P3)
  /\ UNCHANGED << written, forged >>

(* the upstream of `side` writes n bytes: circuit_send -> send() *)
UpstreamRead(side, sizes, envs, trace) ==
  /\ CanSend(side)
  /\ ~proc[side].ckt.upstream_eof
  /\ \E n \in sizes, env \in envs :
       /\ written[side] + n <= MaxBytes \/ (n > SECTION_LEN /\ written[side] = 0)
       /\ \E P0 \in { Begin([proc[side] EXCEPT
                                !.ckt.up_in =
                                   evbuffer_add_buffer(@, Run(written[side], n))],
                             env) } :
            \E P1 \in { send(P0) } :
              \E P2 \in { circuit_send_result(P1) } :
                /\ proc' = [proc EXCEPT ![side] = Finish(P2)]
                /\ wire' = Deliver(wire, Peer(side), P2)
                /\ written' = [written EXCEPT ![side] = @ + n]
                /\ call' = Observe(trace, "send", side, 0, P0, P1)
  /\ UNCHANGED forged

(* the upstream of `side` reaches end of file: circuit_send_eof -> send_eof() *)
UpstreamEOF(side, envs, trace) ==
  /\ CanSend(side)
  /\ ~proc[side].ckt.upstream_eof
  /\ \E env \in envs :
       \E P0 \in { Begin(proc[side], env) } :
         \E P1 \in { send_eof(P0) } :
           \E P2 \in { circuit_send_result(P1) } :
             /\ proc' = [proc EXCEPT ![side] = Finish(P2)]
             /\ wire' = Deliver(wire, Peer(side), P2)
             /\ call' = Observe(trace, "send_eof", side, 0, P0, P1)
  /\ UNCHANGED << written, forged >>

(* the flush timer of `side` fires: circuit_send -> send() *)
FlushTimeout(side, envs, trace) ==
  /\ CanSend(side)
  /\ proc[side].ckt.flush_timer
  /\ \E env \in envs :
       \E P0 \in { Begin(proc[side], env) } :
         \E P1 \in { send(P0) } :
           \E P2 \in { circuit_send_result(P1) } :
             /\ proc' = [proc EXCEPT ![side] = Finish(P2)]
             /\ wire' = Deliver(wire, Peer(side), P2)
             /\ call' = Observe(trace, "send", side, 0, P0, P1)
  /\ UNCHANGED << written, forged >>

(* a steg module calls transmit_soon() on connection c *)
TransmitSoon(side, c) ==
  /\ CanSend(side)
  /\ proc[side].conn[c].live
  /\ ~proc[side].conn[c].must_send_timer
  /\ proc' = [proc EXCEPT ![side].conn[c].must_send_timer = TRUE]
  /\ UNCHANGED << wire, written, forged, call >>

(* transmit_soon() called by the steg of a connection that has no circuit *)
TransmitSoonIdle(side, c) ==
  /\ Running(side)
  /\ proc[side].conn[c].live
  /\ ~proc[side].conn[c].upstream
  /\ ~proc[side].conn[c].must_send_timer
  /\ proc' = [proc EXCEPT ![side].conn[c].must_send_timer = TRUE]
  /\ UNCHANGED << wire, written, forged, call >>

(* chop_conn_t::must_send_timeout: the must-send timer of c fires *)
MustSendTimeout(side, c, envs, trace) ==
  /\ CanSend(side)
  /\ proc[side].conn[c].live /\ must_send_p(proc[side], c)
  /\ \E env \in envs :
       \E P0 \in { Begin(proc[side], env) } :
         \E P1 \in { conn_send(P0, c) } :
           /\ proc' = [proc EXCEPT ![side] = Finish(P1)]
           /\ wire' = Deliver(wire, Peer(side), P1)
           /\ call' = Observe(trace, "must_send", side, c, P0, P1)
  /\ UNCHANGED << written, forged >>

(* the read callback of connection c at `side`: steg->receive extracts the *)
(* first k blocks in flight into recv_pending, then recv() runs            *)
DownstreamRead(side, c, envs, trace) ==
  /\ Running(side)
  /\ proc[side].conn[c].live
  /\ proc[side].conn[c].recv_short = 0
  /\ wire[side][c] # << >>
  /\ proc[side].conn[c].upstream \/ Head(wire[side][c]).hs # NoHandshake
  /\ \E k \in 1 .. Len(wire[side][c]), env \in envs :
       \E P0 \in { Begin([Enter(proc[side], c) EXCEPT
                             !.conn[c].recv_pending =
                                @ \o SubSeq(wire[side][c], 1, k)],
                          env) } :
         \E P1 \in { recv(P0, c) } :
           \E P2 \in { downstream_read_result(P1, c) } :
             /\ proc' = [proc EXCEPT ![side] = Finish(P2)]
             /\ wire' = Deliver([wire EXCEPT ![side][c] =
                                   SubSeq(@, k + 1, Len(@))],
                                Peer(side), P2)
             /\ call' = Observe(trace, "recv", side, c, P0, P1)
  /\ UNCHANGED << written, forged >>

(* the peer has closed connection c, whose read callback sees end of file  *)
(* after the k blocks still in flight: recv_eof(), and then the framework  *)
(* closes the connection                                                   *)
DownstreamEOF(side, c, envs, trace) ==
  /\ Running(side)
  /\ proc[side].conn[c].live
  /\ ~proc[Peer(side)].conn[c].live \/ proc[Peer(side)].conn[c].sent_eof
  /\ IF proc[side].conn[c].upstream \/ wire[side][c] = << >> THEN TRUE
     ELSE Head(wire[side][c]).hs # NoHandshake
  /\ \E env \in envs :
       \E P0 \in { Begin([Enter(proc[side], c) EXCEPT
                             !.conn[c].recv_pending = @ \o wire[side][c],
                             !.conn[c].inbound =
                                Len(wire[side][c])
                                  + (IF env.behind THEN 1 ELSE 0)],
                          env) } :
         \E P1 \in { recv_eof(P0, c) } :
           \E P2 \in { IF P1.aborted THEN P1 ELSE conn_delete(P1, c) } :
             /\ proc' = [proc EXCEPT ![side] = Finish(P2)]
             /\ wire' = Deliver([wire EXCEPT ![side][c] = << >>],
                                Peer(side), P2)
             /\ call' = Observe(trace, "recv_eof", side, c, P0, P1)
  /\ UNCHANGED << written, forged >>

(* the framework closes connection c of `side`: ~chop_conn_t() *)
ConnClose(side, c, trace) ==
  /\ Running(side)
  /\ proc[side].conn[c].live
  /\ \E P0 \in { Begin(Enter(proc[side], c), Quiet(Room(0, 0))) } :
       \E P1 \in { conn_delete(P0, c) } :
         /\ proc' = [proc EXCEPT ![side] = Finish(P1)]
         /\ call' = Observe(trace, "close", side, c, P0, P1)
  /\ UNCHANGED << wire, written, forged >>

(* the upstream of `side` has taken everything the circuit had for it; a   *)
(* circuit that was only waiting for that is closed                        *)
UpstreamFlush(side) ==
  /\ Running(side)
  /\ proc[side].ckt.live
  /\ proc[side].ckt.up_unflushed > 0
  /\ \E P0 \in { Begin([proc[side] EXCEPT !.ckt.up_unflushed = 0],
                        Quiet(Room(0, 0))) } :
       proc' = [proc EXCEPT ![side] =
                  Finish(IF P0.ckt.flushing THEN circuit_delete(P0) ELSE P0)]
  /\ UNCHANGED << wire, written, forged, call >>

(* the client opens another circuit: circuit_create(), with the random     *)
(* numbers it draws                                                        *)
CircuitCreate(side, trace) ==
  /\ Running(side)
  /\ Cardinality(DOMAIN Live(proc[side])) < MaxCircuits
  /\ \E draws \in [1 .. 2 -> 0 .. MaxId] :
       \E P0 \in { Begin(proc[side], Quiet(Room(0, 0))) } :
         \E P1 \in { circuit_create(P0, draws) } :
           /\ P1 # P0
           /\ proc' = [proc EXCEPT ![side] = Finish(P1)]
           /\ call' = IF trace
                        THEN [op |-> "circuit_create", side |-> side,
                              draws |-> draws, before |-> P0, after |-> P1]
                        ELSE call
  /\ UNCHANGED << wire, written, forged >>

(* the framework closes a circuit, as when the axe timer fires or the      *)
(* upstream fails: ~chop_circuit_t()                                       *)
CircuitClose(side, trace) ==
  /\ Running(side)
  /\ \E key \in DOMAIN Live(proc[side]) :
       \E P0 \in { Begin(Focus(proc[side], key), Quiet(Room(0, 0))) } :
         \E P1 \in { circuit_delete(P0) } :
           /\ proc' = [proc EXCEPT ![side] = Finish(P1)]
           /\ call' = Observe(trace, "circuit_close", side, 0, P0, P1)
  /\ UNCHANGED << wire, written, forged >>

(* somebody who is not the client connects to the server, and sends an     *)
(* empty block with four bytes of its choice before it                     *)
Stranger(c) ==
  /\ Running("server")
  /\ ~proc["client"].conn[c].live /\ ~proc["server"].conn[c].live
  /\ wire["client"][c] = << >> /\ wire["server"][c] = << >>
  /\ forged < MaxForged
  /\ \E id \in 0 .. MaxId :
       wire' = [wire EXCEPT !["server"][c] =
                  << [hs |-> id, hdr |-> block_header(0, 0, 0, op_DAT),
                      data |-> << >>, mac |-> TRUE] >>]
  /\ proc' = [proc EXCEPT !["server"].conn[c] = NewConn]
  /\ forged' = forged + 1
  /\ UNCHANGED << written, call >>

(* somebody on the path repeats a block that `side` has already sent *)
Replay(side, c) ==
  /\ proc[Peer(side)].conn[c].live
  /\ proc[Peer(side)].conn[c].upstream
  /\ forged < MaxForged
  /\ \E i \in 1 .. Len(proc[side].log) :
       wire' = [wire EXCEPT ![Peer(side)][c] =
                  Append(@, [hs |-> NoHandshake, hdr |-> proc[side].log[i].hdr,
                             data |-> proc[side].log[i].data, mac |-> TRUE])]
  /\ forged' = forged + 1
  /\ UNCHANGED << proc, written, call >>

(***************************************************************************)
(* Spec: a client circuit sends its upstream's bytes over two connections  *)
(* to a server circuit, which reassembles them.                            *)
(***************************************************************************)
LinkRooms == { Room(0, 0), Room(Big, 0), Room(0, Big),
               Room(MIN_BLOCK_SIZE + 1, 0) }

LinkEnvs == { Quiet(room) : room \in LinkRooms }

Silent == { Quiet(Room(0, 0)) }

Next ==
  \/ \E c \in Conns : Connect(c, { Quiet(Room(0, 0)), Quiet(Room(Big, Big)) },
                              FALSE)
  \/ UpstreamRead("client", { 1, 2 }, LinkEnvs, FALSE)
  \/ UpstreamEOF("client", LinkEnvs, FALSE)
  \/ FlushTimeout("client", LinkEnvs, FALSE)
  \/ \E c \in Conns : DownstreamRead("server", c, Silent, FALSE)
  \/ \E c \in Conns : Replay("client", c)

Spec == Init /\ [][Next]_vars

(***************************************************************************)
(* SpecRecv: the server's receive path under a network that makes up       *)
(* blocks, with the reassembly queue called on the side.                   *)
(***************************************************************************)
ForgeOffsets == { 0, 1, WINDOW - 1, WINDOW, SeqMod - 1 }

BadCheck == << 0, 0, 0, 0, 0, 0, 1 >>

(* the blocks the network makes up: [sequence number past the window,      *)
(* check bytes, opcode]                                                    *)
Forgeries ==
  { << off, ZeroCheck, op_DAT >> : off \in ForgeOffsets }
    \cup { << 0, BadCheck, op_DAT >> }

(* a byte no upstream has written *)
ForgedData == Run(SizeMod, 1)

ForgedHeader(to, fk) ==
  [block_header(window(proc[to].ckt.recv_queue) + fk[1], 1, 0, fk[3])
     EXCEPT !.check = fk[2]]

(* somebody on the path makes up a block for `to` *)
Forge(to, c, kinds) ==
  /\ proc[to].conn[c].live
  /\ proc[to].conn[c].upstream
  /\ forged < MaxForged
  /\ \E fk \in kinds :
       wire' = [wire EXCEPT ![to][c] =
                  Append(@, [hs |-> NoHandshake, hdr |-> ForgedHeader(to, fk),
                             data |-> ForgedData, mac |-> TRUE])]
  /\ forged' = forged + 1
  /\ UNCHANGED << proc, written, call >>

(* reassembly_queue::insert called on a copy of the circuit's queue *)
QueueInsert(side) ==
  /\ proc[side].ckt.live
  /\ \E off \in ForgeOffsets :
       LET q     == proc[side].ckt.recv_queue
           seqno == (window(q) + off) % SeqMod
       IN  call' = [op |-> "insert", q |-> q, seqno |-> seqno,
                    r |-> insert(q, seqno, op_FIN, ForgedData)]
  /\ UNCHANGED << proc, wire, written, forged >>

(* reassembly_queue::remove_next called on a copy of the circuit's queue *)
QueueRemoveNext(side) ==
  /\ proc[side].ckt.live
  /\ LET q == proc[side].ckt.recv_queue
     IN  call' = [op |-> "remove_next", q |-> q, r |-> remove_next(q)]
  /\ UNCHANGED << proc, wire, written, forged >>

OneLink == { Quiet(Room(Big, 0)), Quiet(Room(0, Big)) }

NextRecv ==
  \/ \E c \in Conns : Connect(c, { Quiet(Room(Big, Big)) }, FALSE)
  \/ UpstreamRead("client", { 1 }, OneLink, FALSE)
  \/ \E c \in Conns : DownstreamRead("server", c, Silent, TRUE)
  \/ \E c \in Conns : Forge("server", c, Forgeries)
  \/ QueueInsert("server")
  \/ QueueRemoveNext("server")

SpecRecv == Init /\ [][NextRecv]_vars

(***************************************************************************)
(* SpecSend: the client circuit's transmit side, under downstreams that    *)
(* offer any room, fail to transmit, or stop offering room once used.      *)
(***************************************************************************)
SendRooms ==
  { Room(0, 0), Room(MIN_BLOCK_SIZE, 0), Room(MIN_BLOCK_SIZE + 1, 0),
    Room(Big, 0), Room(0, Big), Room(MIN_BLOCK_SIZE + 1, Big) }

(* every room with a steg that transmits; a steg that fails to transmit;   *)
(* stegs that offer no room once they have transmitted                     *)
SendEnvs ==
  { Quiet(room) : room \in SendRooms }
    \cup { Env(Room(Big, 0), 1, FALSE, FALSE), Env(Room(Big, Big), 0, TRUE, FALSE) }

(* a read handler that can answer, under both outcomes of draining a null  *)
(* buffer, and one that cannot                                             *)
ReadEnvs ==
  { Env(Room(Big, 0), 0, FALSE, nullub) : nullub \in BOOLEAN }
    \cup { Quiet(Room(0, 0)) }

WriteSizes == { 2, SECTION_LEN + 1 }

(* a block with an opcode the receiver does not support *)
Unsupported == { << 0, ZeroCheck, op_RK1 >> }

NextSend ==
  \/ \E c \in Conns : Connect(c, SendEnvs, TRUE)
  \/ UpstreamRead("client", WriteSizes, SendEnvs, TRUE)
  \/ UpstreamEOF("client", SendEnvs, TRUE)
  \/ FlushTimeout("client", SendEnvs, TRUE)
  \/ TransmitSoon("client", 1)
  \/ MustSendTimeout("client", 1, SendEnvs, TRUE)
  \/ Forge("client", 1, Unsupported)
  \/ DownstreamRead("client", 1, ReadEnvs, TRUE)

SpecSend == Init /\ [][NextSend]_vars

(***************************************************************************)
(* SpecPick: pick_connection called on a circuit with any set of attached  *)
(* downstreams, with or without a steg handle, offering any room, visited  *)
(* in any order, for any desired length.                                   *)
(***************************************************************************)
PickRooms ==
  { 0, MIN_BLOCK_SIZE, MIN_BLOCK_SIZE + 1, MIN_BLOCK_SIZE + 8,
    MIN_BLOCK_SIZE + 9, MAX_BLOCK_SIZE, MAX_BLOCK_SIZE + 1 }

Desired == { 0, 1, 8, 9, SECTION_LEN, SECTION_LEN + 1 }

Orders == { << 1, 2 >>, << 2, 1 >> }

RECURSIVE Attach(_, _)
Attach(P, todo) ==
  IF todo = << >> THEN P ELSE Attach(add_downstream(P, Head(todo)), Tail(todo))

InitPick ==
  /\ \E ord \in Orders, n \in 0 .. 2, stegless \in SUBSET Conns :
       LET P0 == [NewProc("client") EXCEPT
                    !.ckt = NewCircuit(ClientCircuit),
                    !.cur = ClientCircuit,
                    !.circuits = (ClientCircuit :> "live"),
                    !.conn = [c \in Conns |->
                                [NewConn EXCEPT !.steg = c \notin stegless]]]
       IN  proc = [side \in Sides |->
                     IF side = "client" THEN Attach(P0, SubSeq(ord, 1, n))
                     ELSE NewProc("server")]
  /\ wire = [side \in Sides |-> [c \in Conns |-> << >>]]
  /\ written = [side \in Sides |-> 0]
  /\ forged = 0
  /\ call = NoCall

(* pick_connection(desired, &blocksize) *)
Pick ==
  /\ call = NoCall
  /\ \E desired \in Desired, room \in [Conns -> PickRooms], ord \in Orders :
       LET P == Begin(proc["client"], [Quiet(room) EXCEPT !.ord = ord])
       IN  call' = [op |-> "pick", before |-> P, desired |-> desired,
                    r |-> pick_connection(P, desired)]
  /\ UNCHANGED << proc, wire, written, forged >>

NextPick == Pick

SpecPick == InitPick /\ [][NextPick]_vars

(***************************************************************************)
(* SpecDrop: connections are closed, by the framework or by the peer, on a *)
(* circuit of either mode with any set of downstreams attached, either FIN *)
(* sent or received or not, and its upstream output drained or not.        *)
(***************************************************************************)
InitDrop ==
  /\ \E side \in Sides, ord \in Orders, n \in 0 .. 2,
        sent \in BOOLEAN, received \in BOOLEAN, unflushed \in 0 .. 1 :
       LET P0 == [NewProc(side) EXCEPT
                    !.ckt = [NewCircuit(ClientCircuit) EXCEPT
                               !.upstream_eof = sent, !.sent_fin = sent,
                               !.received_fin = received,
                               !.up_unflushed = unflushed],
                    !.cur = ClientCircuit,
                    !.circuits = (ClientCircuit :> "live"),
                    !.conn = [c \in Conns |-> NewConn]]
       IN  proc = [s \in Sides |->
                     IF s = side THEN Attach(P0, SubSeq(ord, 1, n))
                     ELSE NewProc(s)]
  /\ wire = [side \in Sides |-> [c \in Conns |-> << >>]]
  /\ written = [side \in Sides |-> 0]
  /\ forged = 0
  /\ call = NoCall

NextDrop ==
  \/ \E side \in Sides, c \in Conns : ConnClose(side, c, TRUE)
  \/ \E side \in Sides, c \in Conns :
       DownstreamEOF(side, c, { Quiet(Room(0, 0)) }, TRUE)
  \/ \E side \in Sides : UpstreamFlush(side)

SpecDrop == InitDrop /\ [][NextDrop]_vars

(***************************************************************************)
(* SpecShake: both ends transmit over connections as they are opened, with *)
(* stegs that have room or none, and stegs that fail to transmit.          *)
(***************************************************************************)
ShakeEnvs ==
  { Quiet(Room(0, 0)), Quiet(Room(Big, Big)),
    Env(Room(Big, Big), 1, FALSE, FALSE) }

NextShake ==
  \/ \E c \in Conns : Connect(c, ShakeEnvs, TRUE)
  \/ \E side \in Sides : UpstreamRead(side, { MaxBytes }, ShakeEnvs, TRUE)
  \/ \E c \in Conns : DownstreamRead("server", c, Silent, FALSE)

SpecShake == Init /\ [][NextShake]_vars

(***************************************************************************)
(* SpecTable: a client that opens circuits and connections, a server that  *)
(* is also reached by strangers, and circuits that are closed.             *)
(***************************************************************************)
Replies == { Quiet(Room(0, 0)), Quiet(Room(Big, Big)) }

NextTable ==
  \/ CircuitCreate("client", TRUE)
  \/ \E side \in Sides : CircuitClose(side, FALSE)
  \/ \E c \in Conns : Connect(c, { Quiet(Room(Big, Big)) }, FALSE)
  \/ Stranger(2)
  \/ TransmitSoonIdle("server", 2)
  \/ \E c \in Conns : DownstreamRead("server", c, Replies, TRUE)

SpecTable == Init /\ [][NextTable]_vars

(***************************************************************************)
(* SpecErr: the server's receive path, with room to answer, under a        *)
(* network that makes up blocks of every opcode, repeats blocks, and       *)
(* flips bits of blocks in flight.                                         *)
(***************************************************************************)
ErrOps == { op_DAT, op_FIN, op_RST, op_RK1, op_RESERVED0 }

(* somebody on the path, who has the keys, makes up two blocks with the    *)
(* next two sequence numbers that `to` expects: the first with a byte of   *)
(* data, the second with a byte of data, or with none, or with a byte of   *)
(* data and a tag that does not verify                                     *)
ForgeRun(to, c, ops) ==
  /\ proc[to].conn[c].live
  /\ proc[to].conn[c].upstream
  /\ forged < MaxForged
  /\ \E f1 \in ops, f2 \in ops, second \in { "data", "empty", "altered" } :
       wire' = [wire EXCEPT ![to][c] =
                  @ \o [i \in 1 .. 2 |->
                          [hs |-> NoHandshake,
                           hdr |-> [s |-> (window(proc[to].ckt.recv_queue)
                                             + i - 1) % SeqMod,
                                    d |-> IF i = 2 /\ second = "empty"
                                            THEN 0 ELSE 1,
                                    p |-> 0,
                                    f |-> IF i = 1 THEN f1 ELSE f2,
                                    check |-> ZeroCheck],
                           data |-> IF i = 2 /\ second = "empty"
                                      THEN << >> ELSE ForgedData,
                           mac |-> i = 1 \/ second # "altered"]]]
  /\ forged' = forged + 1
  /\ UNCHANGED << proc, written, call >>

(* somebody on the path flips a bit of a block in flight, past its header  *)
Tamper(to, c) ==
  /\ forged < MaxForged
  /\ \E i \in 1 .. Len(wire[to][c]) :
       /\ wire[to][c][i].mac
       /\ wire' = [wire EXCEPT ![to][c][i].mac = FALSE]
  /\ forged' = forged + 1
  /\ UNCHANGED << proc, written, call >>

ErrEnvs ==
  { Env(Room(Big, Big), 0, FALSE, nullub) : nullub \in BOOLEAN }
    \cup { Quiet(Room(0, 0)) }

NextErr ==
  \/ \E c \in Conns : Connect(c, { Quiet(Room(Big, Big)) }, FALSE)
  \/ UpstreamRead("client", { MaxBytes }, { Quiet(Room(Big, 0)) }, FALSE)
  \/ \E c \in Conns : Forge("server", c, Forgeries)
  \/ \E c \in Conns : Replay("client", c)
  \/ ForgeRun("server", 1, ErrOps)
  \/ \E c \in Conns : Tamper("server", c)
  \/ \E c \in Conns : DownstreamRead("server", c, ErrEnvs, TRUE)

SpecErr == Init /\ [][NextErr]_vars

(***************************************************************************)
(* SpecIdle: both circuits send, receive, lose connections and wait on     *)
(* their timers, under stegs that either offer room or offer none.         *)
(***************************************************************************)
IdleEnvs == { Quiet(Room(0, 0)), Quiet(Room(Big, Big)) }

NextIdle ==
  \/ \E c \in Conns : Connect(c, { Quiet(Room(Big, Big)) }, TRUE)
  \/ UpstreamRead("server", { MaxBytes }, IdleEnvs, TRUE)
  \/ \E side \in Sides : UpstreamEOF(side, IdleEnvs, TRUE)
  \/ FlushTimeout("client", IdleEnvs, TRUE)
  \/ \E side \in Sides : DownstreamRead(side, 1, IdleEnvs, TRUE)
  \/ DownstreamRead("server", 2, IdleEnvs, TRUE)
  \/ \E side \in Sides : ConnClose(side, 1, TRUE)

SpecIdle == Init /\ [][NextIdle]_vars

(***************************************************************************)
(* SpecCease: the client sends over connections whose stegs may tell them  *)
(* to cease transmission once they have transmitted.                       *)
(***************************************************************************)
CeaseEnvs ==
  { Quiet(Room(0, 0)), Quiet(Room(Big, Big)), Ceasing(Room(Big, Big)) }

NextCease ==
  \/ \E c \in Conns : Connect(c, CeaseEnvs, TRUE)
  \/ UpstreamRead("client", { MaxBytes }, CeaseEnvs, TRUE)
  \/ FlushTimeout("client", CeaseEnvs, TRUE)
  \/ TransmitSoon("client", 1)
  \/ MustSendTimeout("client", 1, CeaseEnvs, TRUE)
  \/ \E c \in Conns : ConnClose("client", c, TRUE)

SpecCease == Init /\ [][NextCease]_vars

(***************************************************************************)
(* SpecClose: circuits of either mode, with any set of downstreams         *)
(* attached, are closed by the framework.                                  *)
(***************************************************************************)
NextClose ==
  \/ \E side \in Sides : CircuitClose(side, TRUE)
  \/ \E side \in Sides, c \in Conns : ConnClose(side, c, FALSE)
  \/ \E side \in Sides : UpstreamFlush(side)

SpecClose == InitDrop /\ [][NextClose]_vars

(***************************************************************************)
(* SpecWrap: a client circuit that has emitted nearly as many blocks as    *)
(* there are sequence numbers goes on sending.  P.log holds the blocks     *)
(* emitted from the state drawn on.                                        *)
(***************************************************************************)
WrapRooms == { Room(0, 0), Room(MIN_BLOCK_SIZE + 1, 0), Room(Big, 0) }

InitWrap ==
  /\ \E seq \in SeqMod - 3 .. SeqMod - 1, n \in 0 .. MaxBytes,
        eof \in BOOLEAN :
       LET P0 == [NewProc("client") EXCEPT
                    !.ckt = [NewCircuit(ClientCircuit) EXCEPT
                               !.send_seq = seq,
                               !.up_in = Run(0, n),
                               !.upstream_eof = eof],
                    !.cur = ClientCircuit,
                    !.circuits = (ClientCircuit :> "live"),
                    !.conn = [c \in Conns |->
                                [NewConn EXCEPT !.sent_handshake = TRUE]]]
       IN  proc = [s \in Sides |->
                     IF s = "client" THEN Attach(P0, << 1 >>)
                     ELSE NewProc(s)]
  /\ wire = [side \in Sides |-> [c \in Conns |-> << >>]]
  /\ written = [side \in Sides |-> 0]
  /\ forged = 0
  /\ call = NoCall

(* the flush timer of the client fires, or its upstream has written:       *)
(* circuit_send -> send(), however many blocks the circuit has emitted     *)
LateSend(envs) ==
  /\ Running("client")
  /\ proc["client"].ckt.live
  /\ Len(proc["client"].log) < MaxBlocks
  /\ proc["client"].ckt.dead_cycles < MaxDeadCycles
  /\ \E env \in envs :
       \E P0 \in { Begin(proc["client"], env) } :
         \E P1 \in { send(P0) } :
           \E P2 \in { circuit_send_result(P1) } :
             /\ proc' = [proc EXCEPT !["client"] = Finish(P2)]
             /\ wire' = Deliver(wire, "server", P2)
             /\ call' = Observe(TRUE, "send", "client", 0, P0, P1)
  /\ UNCHANGED << written, forged >>

NextWrap == LateSend({ Quiet(room) : room \in WrapRooms })

SpecWrap == InitWrap /\ [][NextWrap]_vars

(***************************************************************************)
(* SpecKeys: the key generator is asked for keys of several lengths, and   *)
(* circuits of either mode are given their keys.                           *)
(*                                                                         *)
(* The output of the generator is the stream T(1) T(2) ... of HMAC blocks  *)
(* of SHA256_LEN bytes; a byte is known by its place in the stream, and a  *)
(* run [blk, lo, len] is len bytes of block T(blk) from offset lo on.      *)
(* Block 0 stands for the zero bytes a dead generator writes.              *)
(***************************************************************************)
SHA256_LEN == 32

KeyLen == 16

CounterMod == 256

KeyRun(blk, lo, len) ==
  IF len = 0 THEN << >> ELSE << [blk |-> blk, lo |-> lo, len |-> len] >>

(* key_generator_impl::key_generator_impl *)
NewKeyGen == [counter |-> 1, leftover |-> 0, dead |-> FALSE, prevT |-> 0]

(* the while (n < len) loop of key_generator_impl::generate *)
RECURSIVE generate_loop(_, _, _, _)
generate_loop(kg, len, n, out) ==
  IF n >= len THEN [kg |-> kg, out |-> out, n |-> n]
  ELSE
    LET whole   == n + SHA256_LEN < len
        took    == IF whole THEN SHA256_LEN ELSE len - n
        n1      == n + took
        counter == (kg.counter + 1) % CounterMod
        kg1     == [kg EXCEPT !.prevT = kg.counter,
                              !.leftover = IF whole THEN @
                                           ELSE SHA256_LEN - (len - n),
                              !.counter = counter]
        out1    == out \o KeyRun(kg.counter, 0, took)
    IN  IF counter = 0
          THEN [kg |-> [kg1 EXCEPT !.dead = TRUE],
                out |-> out1 \o KeyRun(0, 0, len - n1), n |-> n1]
          ELSE generate_loop(kg1, len, n1, out1)

(* a generate that takes what is left over from the front of the block *)
MGenerateFromFront(kg, len) ==
  IF kg.dead THEN [kg |-> kg, out |-> KeyRun(0, 0, len), n |-> 0]
  ELSE IF kg.leftover >= len
    THEN [kg |-> [kg EXCEPT !.leftover = @ - len],
          out |-> KeyRun(kg.prevT, 0, len), n |-> len]
  ELSE generate_loop([kg EXCEPT !.leftover = 0], len, kg.leftover,
                     KeyRun(kg.prevT, SHA256_LEN - kg.leftover, kg.leftover))

(* key_generator_impl::generate(buf, len) *)
generate(kg, len) ==
  IF kg.dead THEN [kg |-> kg, out |-> KeyRun(0, 0, len), n |-> 0]
  ELSE IF kg.leftover >= len
    THEN [kg |-> [kg EXCEPT !.leftover = @ - len],
          out |-> KeyRun(kg.prevT, SHA256_LEN - kg.leftover, len), n |-> len]
  ELSE generate_loop([kg EXCEPT !.leftover = 0], len, kg.leftover,
                     KeyRun(kg.prevT, SHA256_LEN - kg.leftover, kg.leftover))

(* the four create(kgen, 16) calls of chop_config_t::circuit_create, in    *)
(* the order of `names`; each asserts that it got a whole key              *)
RECURSIVE create_keys(_, _, _)
create_keys(kg, names, keys) ==
  IF names = << >> THEN keys
  ELSE
    LET made(r) ==
          IF r.n # KeyLen THEN [keys EXCEPT !.aborted = TRUE]
          ELSE create_keys(r.kg, Tail(names),
                           [keys EXCEPT ![Head(names)] = r.out])
    IN  made(generate(kg, KeyLen))

NoKeys ==
  [send_crypt |-> << >>, send_hdr_crypt |-> << >>, recv_crypt |-> << >>,
   recv_hdr_crypt |-> << >>, aborted |-> FALSE]

(* the keys chop_config_t::circuit_create gives a circuit *)
circuit_keys(mode, kg) ==
  IF mode = "server"
    THEN create_keys(kg, << "send_crypt", "send_hdr_crypt",
                            "recv_crypt", "recv_hdr_crypt" >>, NoKeys)
    ELSE create_keys(kg, << "recv_crypt", "recv_hdr_crypt",
                            "send_crypt", "send_hdr_crypt" >>, NoKeys)

MaxDraws == 4

KeyLens == { 1, KeyLen, SHA256_LEN, SHA256_LEN + 1 }

InitKeys ==
  /\ proc = [side \in Sides |-> NewProc(side)]
  /\ wire = [side \in Sides |-> [c \in Conns |-> << >>]]
  /\ written = [side \in Sides |-> 0]
  /\ forged = 0
  /\ \E counter \in { 1, CounterMod - 1 } :
       call = [op |-> "from_passphrase", draws |-> 0,
               kg |-> [NewKeyGen EXCEPT !.counter = counter,
                                        !.prevT = counter - 1]]

(* key_generator::generate called for len bytes *)
Generate ==
  /\ call.draws < MaxDraws
  /\ \E len \in KeyLens :
       \E r \in { generate(call.kg, len) } :
         call' = [op |-> "generate", draws |-> call.draws + 1, kg |-> r.kg,
                  before |-> call.kg, len |-> len, out |-> r.out, n |-> r.n]
  /\ UNCHANGED << proc, wire, written, forged >>

(* circuit_create in a process of either mode, with its new generator *)
CreateKeys ==
  /\ call.draws < MaxDraws
  /\ \E mode \in Sides :
       call' = [op |-> "keys", draws |-> MaxDraws, kg |-> call.kg,
                mode |-> mode, keys |-> circuit_keys(mode, NewKeyGen)]
  /\ UNCHANGED << proc, wire, written, forged >>

NextKeys == Generate \/ CreateKeys

SpecKeys == InitKeys /\ [][NextKeys]_vars

(***************************************************************************)
(* SpecValid: block_header::valid run on two headers side by side, with    *)
(* the operations each run performs.                                       *)
(***************************************************************************)
(* clear[9] | clear[10] | ... | clear[15], one operation after the other *)
RECURSIVE or_steps(_, _, _)
or_steps(bytes, acc, run) ==
  IF bytes = << >> THEN [v |-> acc, run |-> run]
  ELSE LET next(v) == or_steps(Tail(bytes), v,
                               Append(run, [op |-> "or", v |-> v]))
       IN  next(BitOr(acc, Head(bytes)))

(* a valid() that returns as soon as it has seen a nonzero check field *)
MValidRunShortCircuit(hdr, win) ==
  LET tested(ck) ==
        IF ck.v # 0 THEN [ret |-> FALSE, run |-> ck.run]
        ELSE
          LET delta == (hdr.s - win) % SeqMod
              hi    == delta - (delta % 256)
              bit   == IF hi # 0 THEN 1 ELSE 0
              all   == BitOr(ck.v, bit)
          IN  [ret |-> all = 0,
               run |-> ck.run \o << [op |-> "sub", v |-> delta],
                                    [op |-> "and", v |-> hi],
                                    [op |-> "test", v |-> bit],
                                    [op |-> "or", v |-> all],
                                    [op |-> "not", v |-> IF all = 0 THEN 1 ELSE 0] >>]
  IN  tested(or_steps(Tail(hdr.check), Head(hdr.check),
                      << [op |-> "load", v |-> Head(hdr.check)] >>))

(* block_header::valid(window), with the operations it performs and what   *)
(* each of them yields                                                     *)
valid_run(hdr, win) ==
  LET tested(ck) ==
        LET delta == (hdr.s - win) % SeqMod
            hi    == delta - (delta % 256)
            bit   == IF hi # 0 THEN 1 ELSE 0
            all   == BitOr(ck.v, bit)
        IN  [ret |-> all = 0,
             run |-> ck.run \o << [op |-> "sub", v |-> delta],
                                  [op |-> "and", v |-> hi],
                                  [op |-> "test", v |-> bit],
                                  [op |-> "or", v |-> all],
                                  [op |-> "not", v |-> IF all = 0 THEN 1 ELSE 0] >>]
  IN  tested(or_steps(Tail(hdr.check), Head(hdr.check),
                      << [op |-> "load", v |-> Head(hdr.check)] >>))

LastCheck == << 0, 0, 0, 0, 0, 0, 128 >>

(* the headers valid() is run on: [sequence number past the window, check  *)
(* bytes], and the windows                                                 *)
ValidInputs ==
  { << off, ck >> : off \in ForgeOffsets, ck \in { ZeroCheck, BadCheck, LastCheck } }

ValidWindows == { 0, 1, SeqMod - 1 }

InitValid ==
  /\ proc = [side \in Sides |-> NewProc(side)]
  /\ wire = [side \in Sides |-> [c \in Conns |-> << >>]]
  /\ written = [side \in Sides |-> 0]
  /\ forged = 0
  /\ call = NoCall

(* valid(window) called on two headers *)
Validate ==
  /\ call = NoCall
  /\ \E win \in ValidWindows, a \in ValidInputs, b \in ValidInputs :
       LET ha == [block_header(win + a[1], 1, 0, op_DAT) EXCEPT !.check = a[2]]
           hb == [block_header(win + b[1], 1, 0, op_DAT) EXCEPT !.check = b[2]]
       IN  call' = [op |-> "valid", window |-> win, a |-> ha, b |-> hb,
                    ra |-> valid_run(ha, win), rb |-> valid_run(hb, win)]
  /\ UNCHANGED << proc, wire, written, forged >>

NextValid == Validate

SpecValid == InitValid /\ [][NextValid]_vars

(***************************************************************************)
(* SpecFrag: the server reads what the client sends in pieces that end     *)
(* anywhere in a block.                                                    *)
(***************************************************************************)
(* how many bytes of a block may still be to come when the read callback   *)
(* runs: none, one, and as many as leave one byte less than a header with  *)
(* its tag                                                                 *)
Shorts(blk) ==
  { 0 } \cup { n \in { 1, wire_len(blk) - MIN_BLOCK_SIZE + 1 } :
                 n < wire_len(blk) }

(* blocks made up by the network that no receiver takes: one past the     *)
(* window and one with a nonzero check field                               *)
Rejects == { << WINDOW, ZeroCheck, op_DAT >>, << 0, BadCheck, op_DAT >> }

(* the read callback of connection c at `side`, which belongs to a         *)
(* circuit: what was missing of the block left in recv_pending has come,   *)
(* and k more blocks of which the last may be short; then recv() runs      *)
DownstreamReadSome(side, c, envs, trace) ==
  /\ Running(side)
  /\ proc[side].conn[c].live
  /\ proc[side].conn[c].upstream
  /\ \E k \in 0 .. Len(wire[side][c]), env \in envs :
       /\ k > 0 \/ proc[side].conn[c].recv_short > 0
       /\ \E short \in (IF k = 0 THEN { 0 }
                         ELSE Shorts(wire[side][c][k])) :
            \E P0 \in { Begin([Enter(proc[side], c) EXCEPT
                                  !.conn[c].recv_pending =
                                     @ \o SubSeq(wire[side][c], 1, k),
                                  !.conn[c].recv_short = short],
                               env) } :
              \E P1 \in { recv(P0, c) } :
                \E P2 \in { downstream_read_result(P1, c) } :
                  /\ proc' = [proc EXCEPT ![side] = Finish(P2)]
                  /\ wire' = Deliver([wire EXCEPT ![side][c] =
                                        SubSeq(@, k + 1, Len(@))],
                                     Peer(side), P2)
                  /\ call' = Observe(trace, "recv", side, c, P0, P1)
  /\ UNCHANGED << written, forged >>

NextFrag ==
  \/ \E c \in Conns : Connect(c, { Quiet(Room(Big, Big)) }, FALSE)
  \/ UpstreamRead("client", { 1 }, OneLink, FALSE)
  \/ \E c \in Conns : DownstreamRead("server", c, Silent, FALSE)
  \/ \E c \in Conns : DownstreamReadSome("server", c, Silent, TRUE)
  \/ \E c \in Conns : Forge("server", c, Rejects)

SpecFrag == Init /\ [][NextFrag]_vars

(***************************************************************************)
(* Properties of Spec.                                                     *)
(***************************************************************************)
Client == proc["client"]

Server == proc["server"]

(* the data sections of the first n emitted blocks, in sequence order *)
RECURSIVE ConcatData(_, _)
ConcatData(log, n) ==
  IF n = 0 THEN << >>
  ELSE evbuffer_add_buffer(ConcatData(log, n - 1), log[n].data)

(* C1: whatever connection carried each block and in whatever order the    *)
(* blocks arrived, the bytes in the server circuit's upstream output are   *)
(* the data sections of the blocks processed so far (sequence numbers 0 up *)
(* to the window) concatenated in sequence order, which is a prefix of the *)
(* byte stream the client's upstream wrote: nothing lost, nothing twice.   *)
C1_InOrderReassembly ==
  Server.ckt.live =>
    LET n == window(Server.ckt.recv_queue)
    IN  /\ n <= Len(Client.log)
        /\ Server.ckt.up_out = ConcatData(Client.log, n)
        /\ Server.ckt.up_out = Run(0, evbuffer_get_length(Server.ckt.up_out))

(* data has been delivered, the next block is still missing and the one    *)
(* after it has already arrived on another path                            *)
C1_Witness ==
  /\ Server.ckt.live
  /\ Server.ckt.up_out # << >>
  /\ LET n == window(Server.ckt.recv_queue)
     IN  /\ ~Server.ckt.recv_queue.cbuf[n % 256].data.ptr
         /\ Server.ckt.recv_queue.cbuf[(n + 1) % 256].data.ptr
         /\ Client.log[n + 1].conn # Client.log[n + 2].conn

(* the client has nothing more to emit and the server has processed every  *)
(* block the client emitted                                                *)
RoundTripOver ==
  /\ Client.ckt.upstream_eof
  /\ Client.ckt.sent_fin \/ Client.aborted
  /\ Server.ckt.live
  /\ window(Server.ckt.recv_queue) = Len(Client.log)

(* C2: once the client's upstream has written B and reached end of file   *)
(* and every block the client emitted has reached the server's circuit,    *)
(* the server's upstream output is exactly B and end of file has been      *)
(* signalled on it exactly once, after the last byte.                      *)
C2_RoundTrip ==
  RoundTripOver =>
    /\ Server.ckt.up_out = Run(0, written["client"])
    /\ Server.ckt.recv_eof = 1
    /\ \A i \in 1 .. Len(Server.rx) :
         Server.rx[i].fin => Server.rx[i].data = << >>

(***************************************************************************)
(* Properties of SpecRecv.                                                 *)
(***************************************************************************)
(* the call observed is a recv() on a connection that already belonged to  *)
(* its circuit                                                             *)
RecvCall ==
  /\ call.op = "recv"
  /\ call.before.conn[call.conn].upstream

PendingBefore == call.before.conn[call.conn].recv_pending

PendingAfter == call.after.conn[call.conn].recv_pending

QueueBefore == call.before.ckt.recv_queue

QueueAfter == call.after.ckt.recv_queue

Delta(s, w) == (s - w) % SeqMod

(* the check field is not all zero, or the sequence number is outside the  *)
(* 256 numbers starting at w                                               *)
BadHeader(hdr, w) == hdr.check # ZeroCheck \/ Delta(hdr.s, w) > 255

Untouched ==
  /\ QueueAfter = QueueBefore
  /\ call.after.ckt.up_out = call.before.ckt.up_out
  /\ call.after.rx = call.before.rx

(* C3: recv() turns away a block whose check field is not zero or whose    *)
(* sequence number is not within 255 of the window, before consuming it,   *)
(* and leaves next_to_process, every slot and the upstream output as they  *)
(* were; a header with a zero check field and a sequence number within 255 *)
(* of the window passes valid() and is consumed; insert() on its own turns *)
(* away a sequence number outside the window and leaves the queue as it    *)
(* was.                                                                    *)
C3_Rejection ==
  /\ RecvCall =>
       LET hdr == Head(PendingBefore).hdr
       IN  IF BadHeader(hdr, window(QueueBefore))
             THEN /\ call.after.ret = -1
                  /\ PendingAfter = PendingBefore
                  /\ Untouched
             ELSE PendingAfter # PendingBefore
  /\ call.op = "insert" /\ Delta(call.seqno, window(call.q)) > 255 =>
       ~call.r.ok /\ call.r.q = call.q

(* a block below the window is turned away by a circuit that has already   *)
(* delivered data and holds a block waiting behind a gap                   *)
C3_Witness ==
  /\ RecvCall
  /\ Head(PendingBefore).hdr.check = ZeroCheck
  /\ Delta(Head(PendingBefore).hdr.s, window(QueueBefore)) = SeqMod - 1
  /\ call.before.ckt.up_out # << >>
  /\ \E i \in 0 .. WINDOW - 1 : QueueBefore.cbuf[i].data.ptr
  /\ call.after.ret = -1

(* C4: of two blocks with the same sequence number in the window the first *)
(* is stored and the second is turned away by insert(), leaving the slots  *)
(* and next_to_process as they were; no sequence number is taken off the   *)
(* queue twice.                                                            *)
C4_Duplicate ==
  /\ RecvCall =>
       LET blk  == Head(PendingBefore)
           pos  == blk.hdr.s % 256
           elt  == [data |-> EvBuf(evbuffer_copyout(blk.data, blk.hdr.d)),
                    op |-> blk.hdr.f]
       IN  ~BadHeader(blk.hdr, window(QueueBefore)) =>
             IF QueueBefore.cbuf[pos].data.ptr
               THEN /\ call.after.ret = -1
                    /\ Untouched
                    /\ PendingAfter = Tail(PendingBefore)
               ELSE \/ QueueAfter.cbuf[pos] = elt
                    \/ \E i \in 1 .. Len(call.after.rx) :
                         /\ i > Len(call.before.rx)
                         /\ call.after.rx[i].seq = blk.hdr.s
                         /\ call.after.rx[i].data = elt.data.bytes
  /\ call.op = "insert" /\ Delta(call.seqno, window(call.q)) <= 255 =>
       LET pos == call.seqno % 256
       IN  IF call.q.cbuf[pos].data.ptr
             THEN ~call.r.ok /\ call.r.q = call.q
             ELSE /\ call.r.ok
                  /\ call.r.q = [call.q EXCEPT !.cbuf[pos] =
                                   [data |-> EvBuf(ForgedData), op |-> op_FIN]]
  /\ \A i, j \in 1 .. Len(Server.rx) :
       i < j => Server.rx[i].seq # Server.rx[j].seq

(* a second block for a sequence number that is waiting in the queue       *)
(* arrives and is turned away                                              *)
C4_Witness ==
  /\ RecvCall
  /\ ~BadHeader(Head(PendingBefore).hdr, window(QueueBefore))
  /\ QueueBefore.cbuf[Head(PendingBefore).hdr.s % 256].data.ptr
  /\ call.after.ret = -1
  /\ forged = 1

(* C5: remove_next() on a queue whose slot next_to_process & 0xFF is       *)
(* occupied returns that slot's element, clears the slot and adds one to   *)
(* next_to_process (mod 2^32); on a queue whose slot is empty it returns   *)
(* the empty element and changes nothing, whatever later slots hold; the   *)
(* blocks a circuit takes off its queue have the sequence numbers 0, 1,    *)
(* 2, ... with no gap.                                                     *)
C5_RemoveNext ==
  /\ call.op = "remove_next" =>
       LET q     == call.q
           r     == call.r
           front == q.next_to_process % 256
       IN  IF q.cbuf[front].data.ptr
             THEN /\ r.rv = q.cbuf[front]
                  /\ r.q.cbuf = [q.cbuf EXCEPT ![front] = EmptyElt]
                  /\ r.q.next_to_process = (q.next_to_process + 1) % SeqMod
             ELSE /\ r.rv = EmptyElt
                  /\ r.q = q
  /\ \A i \in 1 .. Len(Server.rx) : Server.rx[i].seq = i - 1

(* remove_next() is called while the next block is missing and a later one *)
(* is waiting                                                              *)
C5_Witness ==
  /\ call.op = "remove_next"
  /\ ~call.q.cbuf[call.q.next_to_process % 256].data.ptr
  /\ call.q.cbuf[(call.q.next_to_process + 1) % 256].data.ptr
  /\ Len(Server.rx) > 0

(***************************************************************************)
(* Properties of SpecSend.                                                 *)
(***************************************************************************)
Emitted == Client.log

(* the blocks the observed call has emitted *)
EmittedByCall == Len(call.before.log) + 1 .. Len(call.after.log)

SendCall == call.op \in { "send", "send_eof" }

SchedulerCall == call.op \in { "send", "send_eof", "must_send", "handshake" }

C7_FinOpcode ==
  /\ \A i \in 1 .. Len(Emitted) :
       LET e == Emitted[i]
       IN  /\ ~e.special =>
                /\ e.hdr.f \in { op_DAT, op_FIN }
                /\ e.hdr.f = op_FIN <=> (e.eof /\ ~e.fin /\ e.hdr.d = e.avail)
           /\ e.fin <=> \E j \in 1 .. i - 1 : Emitted[j].hdr.f = op_FIN
  /\ Cardinality({ i \in 1 .. Len(Emitted) : Emitted[i].hdr.f = op_FIN }) <= 1
  /\ ~Client.aborted =>
       (Client.ckt.sent_fin <=>
          \E i \in 1 .. Len(Emitted) : Emitted[i].hdr.f = op_FIN)

(* after end of file a block that cannot take all that is waiting went out *)
(* as DAT and the block that took the rest as FIN                          *)
C7_Witness ==
  \E i, j \in 1 .. Len(Emitted) :
    /\ i < j
    /\ Emitted[i].hdr.f = op_DAT /\ Emitted[i].eof /\ ~Emitted[i].special
    /\ Emitted[i].avail > Emitted[i].hdr.d
    /\ Emitted[j].hdr.f = op_FIN /\ Emitted[j].hdr.d > 0

(* C8: a call of the scheduler completes without a failed assertion, and   *)
(* every block it builds has D = min(avail, blocksize-32, 65535) and       *)
(* P = blocksize-32-D with 0 <= P <= 65535, where blocksize is the block's *)
(* total length, whatever room the chosen downstream offered.              *)
C8_BlockSizing ==
  SchedulerCall =>
    /\ ~call.after.aborted
    /\ \A i \in EmittedByCall :
         LET e         == call.after.log[i]
             blocksize == total_len(e.hdr)
         IN  ~e.special =>
               /\ e.hdr.d = Min(Min(e.avail, blocksize - MIN_BLOCK_SIZE),
                                SECTION_LEN)
               /\ e.hdr.p = blocksize - MIN_BLOCK_SIZE - e.hdr.d
               /\ 0 <= e.hdr.p /\ e.hdr.p <= SECTION_LEN

Roomy(P) == \E c \in P.ckt.downstreams : P.conn[c].steg /\ P.conn[c].room > MIN_BLOCK_SIZE

(* C10: send() with nothing waiting and a downstream offering more than 32 *)
(* bytes emits exactly one block, with D = 0; with bytes waiting it emits  *)
(* blocks until nothing is waiting or no downstream offers room; with no   *)
(* downstream offering room it emits nothing and returns 0.                *)
C10_SendPass ==
  SendCall /\ call.before.o.failat = 0 =>
    LET avail0  == evbuffer_get_length(call.before.ckt.up_in)
        avail   == evbuffer_get_length(call.after.ckt.up_in)
        emitted == Len(call.after.log) - Len(call.before.log)
    IN  /\ avail0 = 0 /\ Roomy(call.before) =>
             /\ emitted = 1
             /\ call.after.log[Len(call.after.log)].hdr.d = 0
        /\ avail0 > 0 /\ Roomy(call.before) =>
             /\ ~call.after.aborted
             /\ emitted >= 1
             /\ avail = 0 \/ ~Roomy(call.after)
        /\ ~Roomy(call.before) =>
             /\ emitted = 0
             /\ call.after.ret = 0
             /\ ~call.after.aborted

(***************************************************************************)
(* Properties of SpecPick.                                                 *)
(***************************************************************************)
(* the room pick_connection takes a downstream to offer *)
Offer(P, c) ==
  IF P.conn[c].room <= MIN_BLOCK_SIZE THEN 0
  ELSE Min(P.conn[c].room, MAX_BLOCK_SIZE)

Candidates(P) == { c \in P.ckt.downstreams : P.conn[c].steg }

(* C9: with want = min(desired, 65535) + 32, pick_connection returns an    *)
(* attached downstream with a steg handle whose offer is the smallest one  *)
(* that is at least want, and blocksize = want; or else one whose offer is *)
(* the largest nonzero one below want, and blocksize = that offer; or else *)
(* no downstream and blocksize 0.  A downstream that is returned has a     *)
(* steg handle and 32 <= blocksize <= its room.                            *)
C9_PickConnection ==
  call.op = "pick" =>
    LET P     == call.before
        want  == Min(call.desired, SECTION_LEN) + MIN_BLOCK_SIZE
        above == { c \in Candidates(P) : Offer(P, c) >= want }
        below == { c \in Candidates(P) : Offer(P, c) > 0 /\ Offer(P, c) < want }
        r     == call.r
    IN  /\ IF above # { }
             THEN /\ r.conn \in above
                  /\ \A c \in above : Offer(P, r.conn) <= Offer(P, c)
                  /\ r.blocksize = want
           ELSE IF below # { }
             THEN /\ r.conn \in below
                  /\ \A c \in below : Offer(P, r.conn) >= Offer(P, c)
                  /\ r.blocksize = Offer(P, r.conn)
           ELSE r.conn = NoTarget /\ r.blocksize = 0
        /\ r.conn # NoTarget =>
             /\ P.conn[r.conn].steg
             /\ MIN_BLOCK_SIZE <= r.blocksize
             /\ r.blocksize <= P.conn[r.conn].room

(* no downstream can take all of it, two can take part of it, the one      *)
(* visited second offers more and is returned, with its room as blocksize  *)
C9_Witness ==
  /\ call.op = "pick"
  /\ call.before.ckt.downstreams = Conns
  /\ \A c \in Conns : call.before.conn[c].steg
  /\ call.r.conn = call.before.o.ord[2]
  /\ call.r.blocksize = MIN_BLOCK_SIZE + 8
  /\ Offer(call.before, call.before.o.ord[1]) = MIN_BLOCK_SIZE + 1
  /\ call.desired = 9

(***************************************************************************)
(* Properties of SpecDrop.                                                 *)
(***************************************************************************)
Dropped ==
  /\ call.op \in { "close", "recv_eof" }
  /\ call.before.conn[call.conn].upstream
  /\ call.after.aborted \/ ~call.after.conn[call.conn].upstream

Destroyed ==
  /\ call.before.ckt.live
  /\ ~call.after.ckt.live
  /\ call.after.circuits[call.before.ckt.circuit_id] = "null"

(* C11: when a downstream is dropped, the circuit is destroyed exactly     *)
(* when that was its last downstream, a FIN has been both sent and         *)
(* received, and the upstream output is drained; with both FINs and output *)
(* left it is flushed and stays; with a FIN missing it stays on a timer,   *)
(* the axe timer on the server and the flush timer on the client; and     *)
(* while other downstreams remain nothing but the set of downstreams       *)
(* changes.                                                                *)
C11_DropDownstream ==
  Dropped =>
    LET b    == call.before.ckt
        a    == call.after.ckt
        last == b.downstreams = { call.conn }
        fins == b.sent_fin /\ b.received_fin
    IN  /\ ~call.after.aborted
        /\ Destroyed <=> (last /\ fins /\ b.up_unflushed = 0)
        /\ (last /\ fins /\ b.up_unflushed > 0) => a.live /\ a.flushing
        /\ (last /\ ~fins) =>
             /\ a.live
             /\ IF call.before.mode = "server" THEN a.axe_timer ELSE a.flush_timer
        /\ ~last => a = [b EXCEPT !.downstreams = @ \ { call.conn }]
        /\ ~Destroyed => a.downstreams = b.downstreams \ { call.conn }

(* the last downstream of a circuit with both FINs and nothing left to     *)
(* write upstream is closed, and the circuit goes with it                  *)
C11_Witness ==
  /\ Dropped
  /\ call.op = "close"
  /\ call.before.ckt.downstreams = { call.conn }
  /\ call.before.ckt.sent_fin /\ call.before.ckt.received_fin
  /\ call.before.ckt.up_unflushed = 0
  /\ Destroyed

(***************************************************************************)
(* Properties of SpecShake.                                                *)
(***************************************************************************)
Transmits == call.op \in { "handshake", "send" }

(* C12: on a client connection the circuit id goes before the first block  *)
(* that is transmitted and before no later one: a call that starts with    *)
(* sent_handshake false puts the id before the first block it transmits on *)
(* that connection and before none of the others, and leaves the flag true *)
(* exactly when it transmitted one; a call that starts with the flag true  *)
(* prepends nothing and leaves it true; a server prepends nothing.         *)
C12_Handshake ==
  Transmits =>
    \A c \in Conns :
      LET b    == call.before.conn[c]
          a    == call.after.conn[c]
          sent == call.after.tx[c]
          first == call.before.mode = "client" /\ ~b.sent_handshake
      IN  /\ \A i \in 1 .. Len(sent) :
               sent[i].hs = IF first /\ i = 1 THEN call.before.ckt.circuit_id
                            ELSE NoHandshake
          /\ call.before.mode = "client" /\ a.live =>
               a.sent_handshake = (b.sent_handshake \/ sent # << >>)

(* nothing was transmitted on a client connection when it was opened,      *)
(* which left the flag false; a later call transmits a block there, with   *)
(* the id before it, and sets the flag                                     *)
C12_Witness ==
  /\ call.op = "send"
  /\ call.before.mode = "client"
  /\ \E c \in Conns :
       /\ call.before.conn[c].live
       /\ ~call.before.conn[c].sent_handshake
       /\ call.before.ckt.send_seq > 0
       /\ Len(call.after.tx[c]) > 0
       /\ call.after.tx[c][1].hs = ClientCircuit
       /\ call.after.conn[c].sent_handshake

(***************************************************************************)
(* Properties of SpecTable.                                                *)
(***************************************************************************)
Handshaking ==
  /\ call.op = "recv"
  /\ call.side = "server"
  /\ ~call.before.conn[call.conn].upstream
  /\ call.before.conn[call.conn].recv_pending # << >>

HandshakeId == Head(call.before.conn[call.conn].recv_pending).hs

Stale ==
  /\ HandshakeId \in DOMAIN call.before.circuits
  /\ call.before.circuits[HandshakeId] = "null"

Unseen == HandshakeId \notin DOMAIN call.before.circuits

(* C13: a handshake with an id the server's table does not have makes a    *)
(* new circuit, which the table then maps the id to, and attaches the      *)
(* connection to it; a handshake with the id of a live circuit attaches    *)
(* the connection to that circuit and makes none; either way the table     *)
(* then maps the id to the circuit the connection is attached to, whose    *)
(* circuit_id is the id, and the other circuits are as they were.          *)
C13_RecvHandshake ==
  Handshaking /\ ~Stale =>
    LET b  == call.before
        a  == call.after
        id == HandshakeId
    IN  /\ ~a.aborted
        /\ a.circuits = (id :> "live") @@ b.circuits
        /\ a.circuits[id] = "live"
        /\ DOMAIN Live(a) = DOMAIN Live(b) \cup { id }
        /\ \A k \in DOMAIN Live(b) \ { id } : Live(a)[k] = Live(b)[k]
        /\ a.cur = id /\ a.ckt.live /\ a.ckt.circuit_id = id
        /\ a.conn[call.conn].upstream
        /\ a.ckt.downstreams =
             (IF Unseen THEN { } ELSE Live(b)[id].downstreams) \cup { call.conn }

(* the second connection of a client arrives and is attached to the        *)
(* circuit that the first one made                                         *)
C13_Witness ==
  /\ Handshaking
  /\ ~Stale /\ ~Unseen
  /\ Live(call.before)[HandshakeId].downstreams # { }
  /\ Cardinality(call.after.ckt.downstreams) = 2

(* C14: a handshake with the id of a closed circuit makes no circuit,      *)
(* leaves the table as it was, attaches the connection to nothing, changes *)
(* no circuit, drops everything the connection had received, transmits     *)
(* one reply on the connection when its must-send timer was pending and    *)
(* nothing otherwise, flushes the connection and returns 0.                *)
C14_StaleCircuit ==
  Handshaking /\ Stale =>
    LET b == call.before
        a == call.after
        c == call.conn
    IN  /\ ~a.aborted /\ a.ret = 0
        /\ a.circuits = b.circuits
        /\ Live(a) = Live(b)
        /\ ~a.conn[c].upstream
        /\ \A k \in DOMAIN Live(a) : c \notin Live(a)[k].downstreams
        /\ a.conn[c].recv_pending = << >>
        /\ a.conn[c].flushing
        /\ \A d \in Conns \ { c } : a.tx[d] = << >> /\ a.conn[d] = b.conn[d]
        /\ a.tx[c] # << >> <=>
             (b.conn[c].must_send_timer /\ b.conn[c].room >= MIN_BLOCK_SIZE)
        /\ Len(a.tx[c]) <= 1

(* a connection arrives for a circuit that has been closed while another   *)
(* circuit is live, its steg wants a reply, and one is transmitted         *)
C14_Witness ==
  /\ Handshaking /\ Stale
  /\ DOMAIN Live(call.before) # { }
  /\ call.before.conn[call.conn].must_send_timer
  /\ Len(call.before.conn[call.conn].recv_pending) = 1
  /\ Len(call.after.tx[call.conn]) = 1
  /\ call.after.conn[call.conn].flushing

(* C15: the id of a circuit that is destroyed is mapped to null from then  *)
(* on, and an id that is mapped to null is never mapped to anything else:  *)
(* no step takes an id from null to a circuit or out of the table, and a   *)
(* step that ends a circuit leaves its id mapped to null.                  *)
C15_Tombstones ==
  [][\A side \in Sides :
       /\ \A id \in DOMAIN proc[side].circuits :
            proc[side].circuits[id] = "null" =>
              /\ id \in DOMAIN proc'[side].circuits
              /\ proc'[side].circuits[id] = "null"
              /\ id \notin DOMAIN Live(proc'[side])
       /\ \A id \in DOMAIN Live(proc[side]) \ DOMAIN Live(proc'[side]) :
            /\ id \in DOMAIN proc'[side].circuits
            /\ proc'[side].circuits[id] = "null"]_vars

(* the client draws the id of a circuit it has closed, draws again, and    *)
(* opens the new circuit under the second id                               *)
C15_Witness ==
  /\ call.op = "circuit_create"
  /\ call.draws[1] \in DOMAIN call.before.circuits
  /\ call.before.circuits[call.draws[1]] = "null"
  /\ call.after.circuits[call.draws[1]] = "null"
  /\ call.after.circuits[call.draws[2]] = "live"
  /\ call.after.ckt.circuit_id = call.draws[2]

(* C16: every live circuit has a circuit_id that is not zero and that no   *)
(* other circuit of its table has: the table maps that id, and no other,   *)
(* to the circuit, so that the id is neither the id of another live        *)
(* circuit nor one that is mapped to null.                                 *)
C16_CircuitIds ==
  \A side \in Sides :
    \A k \in DOMAIN Live(proc[side]) :
      /\ Live(proc[side])[k].circuit_id # 0
      /\ Live(proc[side])[k].circuit_id = k
      /\ k \in DOMAIN proc[side].circuits
      /\ proc[side].circuits[k] = "live"

(***************************************************************************)
(* Properties of SpecErr.                                                  *)
(***************************************************************************)
(* recv is called on a connection of a circuit, which has a downstream     *)
(* that a block could be sent on                                           *)
Receiving ==
  /\ call.op = "recv"
  /\ call.before.conn[call.conn].upstream
  /\ call.before.conn[call.conn].recv_pending # << >>
  /\ \E d \in call.before.ckt.downstreams :
       call.before.conn[d].steg /\ call.before.conn[d].room >= MIN_BLOCK_SIZE

FirstBlock == Head(call.before.conn[call.conn].recv_pending)

InvalidFirst == ~valid(FirstBlock.hdr, window(call.before.ckt.recv_queue))

DuplicateFirst ==
  /\ ~InvalidFirst
  /\ FirstBlock.mac
  /\ ~insert(call.before.ckt.recv_queue, FirstBlock.hdr.s, FirstBlock.hdr.f,
             FirstBlock.data).ok

RstSent(P) ==
  { << d, i >> \in Conns \X (1 .. MaxBlocks + 2) :
      i <= Len(P.tx[d]) /\ P.tx[d][i].hdr.f = op_RST }

(* C17: when the first block recv decodes has an invalid header, or has a  *)
(* sequence number whose slot in the reassembly queue is taken, an RST     *)
(* block is transmitted on some downstream before recv returns.            *)
C17_RstOnBadBlock ==
  Receiving /\ (InvalidFirst \/ DuplicateFirst) =>
    RstSent(call.after) # { }

(* the blocks process_queue took off the reassembly queue in the call *)
Dequeued == Len(call.before.rx) + 1 .. Len(call.after.rx)

Erroneous(e) ==
  \/ e.op \notin { op_DAT, op_FIN }
  \/ e.op = op_FIN /\ e.fin
  \/ e.op = op_DAT /\ e.fin /\ e.data # << >>

FirstError ==
  CHOOSE i \in Dequeued :
    /\ Erroneous(call.after.rx[i])
    /\ \A j \in Dequeued : j < i => ~Erroneous(call.after.rx[j])

(* what the blocks i .. j taken off the queue add to the upstream output *)
RECURSIVE Passed(_, _, _, _)
Passed(out, rx, i, j) ==
  IF i > j THEN out
  ELSE Passed(IF Erroneous(rx[i]) \/ rx[i].fin THEN out
              ELSE evbuffer_add_buffer(out, rx[i].data),
              rx, i + 1, j)

(* C18: a process_queue pass whose first erroneous block is data after a   *)
(* FIN, a block with an opcode that is not allocated, or a rekeying block  *)
(* sends one RST block and returns -1; no pass sends more than one RST;    *)
(* and what a pass adds to the upstream output is the data of the blocks   *)
(* that are not erroneous.                                                 *)
C18_RstOnBadOpcode ==
  Receiving /\ call.after.rx # call.before.rx =>
    /\ Cardinality(RstSent(call.after)) <= 1
    /\ ~call.after.aborted =>
         call.after.ckt.up_out =
           Passed(call.before.ckt.up_out, call.after.rx,
                  Len(call.before.rx) + 1, Len(call.after.rx))
    /\ (\E i \in Dequeued : Erroneous(call.after.rx[i]))
         /\ call.after.rx[FirstError].op \notin { op_RST, op_FIN } =>
           /\ ~call.after.aborted
           /\ call.after.ret = 0 - 1
           /\ Cardinality(RstSent(call.after)) = 1

(* C19: a process_queue pass whose first erroneous block is an RST or a    *)
(* FIN sends no RST block, whatever follows in the pass, and returns -1.   *)
C19_NoRstForRstOrFin ==
  /\ call.op = "recv"
  /\ \E i \in Dequeued : Erroneous(call.after.rx[i])
  /\ call.after.rx[FirstError].op \in { op_RST, op_FIN }
  => /\ RstSent(call.after) = { }
     /\ ~call.after.aborted
     /\ call.after.ret = 0 - 1

(* the circuit has room to send; an RST comes off the queue and a rekeying *)
(* block after it in the same pass, and nothing is sent                    *)
C19_Witness ==
  /\ Receiving
  /\ Len(call.after.rx) = Len(call.before.rx) + 2
  /\ call.after.rx[Len(call.before.rx) + 1].op = op_RST
  /\ call.after.rx[Len(call.before.rx) + 2].op = op_RK1
  /\ RstSent(call.after) = { }
  /\ call.after.ret = 0 - 1

(* the blocks recv took from recv_pending in the call *)
Taken ==
  Len(call.before.conn[call.conn].recv_pending)
    - Len(call.after.conn[call.conn].recv_pending)

MacFailed ==
  /\ call.op = "recv"
  /\ Taken > 0
  /\ ~call.before.conn[call.conn].recv_pending[Taken].mac

(* the circuit of the connection when recv is called, or the one that its  *)
(* handshake finds or makes                                                *)
Reference ==
  LET b  == call.before
      id == FirstBlock.hs
  IN  IF b.conn[call.conn].upstream THEN b.ckt
      ELSE IF id \in DOMAIN Live(b) THEN Live(b)[id]
      ELSE NewCircuit(id)

(* the reassembly queue after the first n of the blocks are inserted *)
RECURSIVE Inserted(_, _, _)
Inserted(q, blocks, n) ==
  IF n = 0 THEN q
  ELSE insert(Inserted(q, blocks, n - 1), blocks[n].hdr.s, blocks[n].hdr.f,
              evbuffer_copyout(blocks[n].data, blocks[n].hdr.d)).q

(* C20: when the tag of a block does not verify, recv returns -1, no block *)
(* is transmitted, the block is not in the reassembly queue, which holds   *)
(* just the blocks decoded before it, and next_to_process, send_seq,       *)
(* sent_fin and received_fin are what they were.                           *)
C20_MacFailure ==
  MacFailed =>
    LET a == call.after
    IN  /\ ~a.aborted /\ a.ret = 0 - 1
        /\ \A d \in Conns : a.tx[d] = << >>
        /\ a.rx = call.before.rx
        /\ a.ckt.recv_queue =
             Inserted(Reference.recv_queue,
                      call.before.conn[call.conn].recv_pending, Taken - 1)
        /\ window(a.ckt.recv_queue) = window(Reference.recv_queue)
        /\ a.ckt.send_seq = Reference.send_seq
        /\ a.ckt.sent_fin = Reference.sent_fin
        /\ a.ckt.received_fin = Reference.received_fin
        /\ a.ckt.up_out = Reference.up_out

(* a block of the client, with a header that is valid, is altered on its   *)
(* way to a server circuit that has room to send, and recv fails on it     *)
C20_Witness ==
  /\ MacFailed
  /\ Receiving
  /\ call.after.ret = 0 - 1
  /\ valid(call.before.conn[call.conn].recv_pending[Taken].hdr,
           window(call.before.ckt.recv_queue))

(* recv gave up on a block in its loop, before any process_queue pass *)
Rejected ==
  /\ call.op = "recv"
  /\ ~call.after.aborted
  /\ call.after.ret = 0 - 1
  /\ call.after.conn[call.conn].upstream
  /\ call.after.rx = call.before.rx

(* the block that process_queue would take off the queue next *)
Waiting(P) == remove_next(P.ckt.recv_queue).rv

(* C21: when recv rejects a block, the blocks it has accepted before it,   *)
(* in the same call or earlier, and that are next in sequence, have been   *)
(* passed on to the upstream output by the time recv returns: none is left *)
(* waiting at the front of the reassembly queue.                           *)
C21_AcceptedBlocksDelivered ==
  Rejected => ~Waiting(call.after).data.ptr

(* a process_queue pass ran in a recv call on a connection of a circuit *)
Pass ==
  /\ call.op = "recv"
  /\ call.before.conn[call.conn].upstream
  /\ call.after.rx # call.before.rx

(* the first FIN of the circuit comes off the queue in the pass *)
FinDelivered ==
  /\ Pass
  /\ \E i \in Dequeued : call.after.rx[i].op = op_FIN /\ ~call.after.rx[i].fin

FirstFin ==
  CHOOSE i \in Dequeued : call.after.rx[i].op = op_FIN /\ ~call.after.rx[i].fin

Resets == { i \in Dequeued : call.after.rx[i].op = op_RST }

(* C22: in the pass that takes the first FIN off the queue, the data of    *)
(* the FIN is appended to the upstream output once, circuit_recv_eof is    *)
(* called once for it, received_fin is true when any later block of the    *)
(* pass is examined and when the pass ends, and no data of a later block   *)
(* is appended.                                                            *)
C22_FirstFin ==
  FinDelivered =>
    /\ \A i \in Dequeued :
         /\ i < FirstFin => ~call.after.rx[i].fin
         /\ i > FirstFin => call.after.rx[i].fin
    /\ call.after.ckt.received_fin
    /\ call.after.ckt.recv_eof =
         call.before.ckt.recv_eof + 1 + Cardinality(Resets)
    /\ call.after.ckt.up_out =
         evbuffer_add_buffer(
           Passed(call.before.ckt.up_out, call.after.rx,
                  Len(call.before.rx) + 1, FirstFin - 1),
           call.after.rx[FirstFin].data)

(* a FIN with a byte of data and a DAT with a byte of data after it come   *)
(* off the queue in one pass: the byte of the FIN is passed on, the other  *)
(* is not                                                                  *)
C22_Witness ==
  /\ FinDelivered
  /\ FirstFin = Len(call.before.rx) + 1
  /\ Len(call.after.rx) = Len(call.before.rx) + 2
  /\ call.after.rx[FirstFin].data # << >>
  /\ call.after.rx[FirstFin + 1].op = op_DAT
  /\ call.after.rx[FirstFin + 1].data # << >>
  /\ call.after.ckt.up_out =
       evbuffer_add_buffer(call.before.ckt.up_out, call.after.rx[FirstFin].data)
  /\ call.after.ckt.recv_eof = call.before.ckt.recv_eof + 1

(* an RST is the first erroneous block that comes off the queue in a pass *)
RstDelivered ==
  /\ Pass
  /\ \E i \in Dequeued : Erroneous(call.after.rx[i])
  /\ call.after.rx[FirstError].op = op_RST

(* C23: in a pass that takes an RST off the queue, circuit_recv_eof is     *)
(* called for the RST, the pass returns -1, and after the RST no data of a *)
(* later block is appended to the upstream output and circuit_recv_eof is  *)
(* not called again.                                                       *)
C23_RstIsEof ==
  RstDelivered =>
    /\ ~call.after.aborted
    /\ call.after.ret = 0 - 1
    /\ call.after.ckt.up_out =
         Passed(call.before.ckt.up_out, call.after.rx,
                Len(call.before.rx) + 1, FirstError - 1)
    /\ call.after.ckt.recv_eof =
         call.before.ckt.recv_eof + 1
           + Cardinality({ i \in Dequeued :
                             /\ i < FirstError
                             /\ call.after.rx[i].op = op_FIN })

(* the blocks of a queue record that carry data                            *)
HasData(e) == e.data # << >>

Loaded(rx) == SelectSeq(rx, HasData)

(* DAT blocks without data come off the queue in the pass, and every other *)
(* block of the pass is in order                                           *)
ChaffDelivered ==
  /\ Pass
  /\ \E i \in Dequeued :
       call.after.rx[i].op = op_DAT /\ call.after.rx[i].data = << >>
  /\ \A i \in Dequeued :
       \/ call.after.rx[i].op = op_DAT /\ call.after.rx[i].data = << >>
       \/ ~Erroneous(call.after.rx[i])

(* C24: a DAT block without data that comes off the reassembly queue,      *)
(* before or after the FIN of the peer, takes its sequence number, adds    *)
(* nothing to the upstream output, is no error and causes no RST.          *)
C24_Chaff ==
  ChaffDelivered =>
    /\ ~call.after.aborted
    /\ call.after.ret = 0
    /\ RstSent(call.after) = { }
    /\ window(call.after.ckt.recv_queue) =
         (window(call.before.ckt.recv_queue) + Cardinality(Dequeued)) % SeqMod
    /\ call.after.ckt.up_out =
         Passed(call.before.ckt.up_out, Loaded(call.after.rx),
                1 + Len(Loaded(call.before.rx)), Len(Loaded(call.after.rx)))

(* a FIN and a DAT block without data after it come off the queue in one   *)
(* pass                                                                    *)
C24_Witness ==
  /\ ChaffDelivered
  /\ Len(call.after.rx) = Len(call.before.rx) + 2
  /\ call.after.rx[Len(call.before.rx) + 1].op = op_FIN
  /\ call.after.rx[Len(call.before.rx) + 2].op = op_DAT
  /\ call.after.rx[Len(call.before.rx) + 2].fin
  /\ call.after.ret = 0

(* a send() on a circuit with a downstream that no transmit failure ends   *)
SendPass ==
  /\ call.op \in { "send", "send_eof" }
  /\ call.before.ckt.downstreams # { }
  /\ ~call.after.aborted
  /\ call.after.ret = 0

Drained ==
  evbuffer_get_length(call.after.ckt.up_in) <
    evbuffer_get_length(call.before.ckt.up_in)

(* a process_queue pass that takes at least one block off the queue *)
QueuePass == Pass /\ ~call.after.aborted

(* process_queue goes on to send() on a circuit with a downstream *)
FollowUp ==
  /\ call.after.ret = 0
  /\ call.before.ckt.downstreams # { }
  /\ \/ evbuffer_get_length(call.before.ckt.up_in) > 0
     \/ call.before.ckt.upstream_eof /\ ~call.before.ckt.sent_fin

(* C25: a send pass that runs to its end leaves dead_cycles at 0 when it   *)
(* took bytes from the upstream input and one higher than before when it   *)
(* took none; a process_queue pass that took a block off the queue has set *)
(* dead_cycles to 0 before its send().                                     *)
C25_DeadCycles ==
  /\ SendPass =>
       call.after.ckt.dead_cycles =
         IF Drained THEN 0 ELSE call.before.ckt.dead_cycles + 1
  /\ QueuePass =>
       call.after.ckt.dead_cycles = IF FollowUp /\ ~Drained THEN 1 ELSE 0

(* a process_queue pass on a circuit with dead cycles behind it takes a    *)
(* block off the queue and goes on to a send() that has nothing to take    *)
C25_Witness ==
  /\ QueuePass
  /\ FollowUp
  /\ ~Drained
  /\ call.before.ckt.dead_cycles > 0
  /\ call.after.ckt.dead_cycles = 1

(* both FINs of the circuit are behind it *)
Finished(ckt) == ckt.sent_fin /\ ckt.received_fin

(* C26: between the handlers of the server, a live circuit without         *)
(* downstreams that has not both sent and received a FIN has its axe timer *)
(* armed, and a circuit with a downstream never has.                       *)
C26_AxeTimer ==
  proc["server"].ckt.live =>
    /\ proc["server"].ckt.downstreams = { } /\ ~Finished(proc["server"].ckt)
         => proc["server"].ckt.axe_timer
    /\ proc["server"].ckt.downstreams # { } => ~proc["server"].ckt.axe_timer

(* a connection joins a server circuit that had lost its last downstream   *)
(* and was waiting on its axe timer                                        *)
C26_Witness ==
  /\ call.op = "recv"
  /\ call.side = "server"
  /\ ~call.before.conn[call.conn].upstream
  /\ call.before.ckt.live
  /\ call.before.ckt.downstreams = { }
  /\ call.before.ckt.axe_timer
  /\ proc["server"].ckt.live
  /\ proc["server"].ckt.downstreams = { call.conn }
  /\ ~proc["server"].ckt.axe_timer

(* a send() or a process_queue() of the client's circuit, with a           *)
(* downstream, returns 0                                                   *)
ClientPass ==
  /\ call.op \in { "send", "send_eof", "recv" }
  /\ call.side = "client"
  /\ call.before.ckt.downstreams # { }
  /\ ~call.after.aborted
  /\ call.after.ret = 0
  /\ call.after.ckt.live

(* the client's circuit loses its last downstream *)
ClientAlone ==
  /\ call.op = "close"
  /\ call.side = "client"
  /\ call.before.ckt.downstreams = { call.conn }
  /\ ~call.after.aborted
  /\ call.after.ckt.live

WakeUp ==
  /\ ClientPass =>
       IF Finished(call.after.ckt) THEN ~call.after.ckt.flush_timer
       ELSE call.after.ckt.flush_timer
  /\ ClientAlone /\ ~Finished(call.after.ckt) => call.after.ckt.flush_timer

StaysDisarmed ==
  /\ proc["client"].ckt.live
  /\ Finished(proc["client"].ckt)
  /\ ~proc["client"].ckt.flush_timer
  /\ proc'["client"].ckt.live
  => ~proc'["client"].ckt.flush_timer

(* C27: when a send() or a process_queue() of the client's circuit returns *)
(* 0 with a downstream attached, and when the circuit loses its last       *)
(* downstream, the flush timer is armed if the circuit has not both sent   *)
(* and received a FIN; when the send() or process_queue() returns 0 on a   *)
(* circuit that has, the timer is disarmed; and a flush timer disarmed     *)
(* with both FINs done is never armed again.                               *)
C27_FlushTimer == []WakeUp /\ [][StaysDisarmed]_vars

(* the circuit, waiting on its flush timer, gets the FIN of its peer after *)
(* it has sent its own, and the timer is disarmed                          *)
C27_Witness ==
  /\ ClientPass
  /\ call.op = "recv"
  /\ call.before.ckt.flush_timer
  /\ ~Finished(call.before.ckt)
  /\ Finished(call.after.ckt)
  /\ ~call.after.ckt.flush_timer

(* the must-send timer of a connection fires while its steg has room for a *)
(* block of the least size, and the steg does not fail to transmit         *)
MustSend ==
  /\ call.op = "must_send"
  /\ call.before.conn[call.conn].steg
  /\ call.before.conn[call.conn].room >= MIN_BLOCK_SIZE
  /\ call.before.o.failat = 0

(* C28: when the must-send timer of a connection fires and its steg has    *)
(* room for 32 bytes, exactly one block goes out, on that connection: a    *)
(* block of the circuit with the circuit's next sequence number, or 32     *)
(* random bytes if the connection has no circuit; and after any call that  *)
(* has transmitted on a connection the must-send timer of that connection  *)
(* is not pending.                                                         *)
C28_MustSend ==
  /\ MustSend =>
       /\ ~call.after.aborted
       /\ \A c \in Conns :
            Len(call.after.tx[c]) = IF c = call.conn THEN 1 ELSE 0
       /\ IF call.before.conn[call.conn].upstream
            THEN /\ call.after.tx[call.conn][1].mac
                 /\ call.after.tx[call.conn][1].hdr.s =
                      call.before.ckt.send_seq
                 /\ call.after.ckt.send_seq =
                      (call.before.ckt.send_seq + 1) % SeqMod
            ELSE /\ ~call.after.tx[call.conn][1].mac
                 /\ call.after.tx[call.conn][1].hdr = InvalidHeader
  /\ call.op \in { "must_send", "send", "send_eof", "recv", "handshake" } =>
       \A c \in Conns :
         ~call.after.aborted /\ call.after.tx[c] # << >>
           => ~call.after.conn[c].must_send_timer

(* a call in which the steg of a connection tells it to cease transmission *)
Ceased(c) ==
  /\ call.op \in { "handshake", "send", "must_send" }
  /\ ~call.after.aborted
  /\ call.after.conn[c].live
  /\ call.after.conn[c].have_transmitted
  /\ ~call.before.conn[c].have_transmitted

(* a call on a process with a connection that was told to cease            *)
(* transmission before                                                     *)
Silenced(c) ==
  /\ call.op \in { "handshake", "send", "must_send" }
  /\ call.before.conn[c].live
  /\ call.before.conn[c].no_more_transmissions

(* C29: when cease_transmission() has been called on a connection, the     *)
(* connection is marked no_more_transmissions, its must-send timer is not  *)
(* pending and it is set to be flushed and closed; no later send() and no  *)
(* later firing of a must-send timer transmits a block on it, and it stays *)
(* marked.                                                                 *)
C29_CeaseTransmission ==
  \A c \in Conns :
    /\ Ceased(c) =>
         /\ call.after.conn[c].no_more_transmissions
         /\ ~call.after.conn[c].must_send_timer
         /\ call.after.conn[c].flushing
    /\ Silenced(c) =>
         /\ call.after.tx[c] = << >>
         /\ call.after.aborted \/ ~call.after.conn[c].live
              \/ call.after.conn[c].no_more_transmissions

(* a send() with bytes waiting, on a circuit whose only downstream was     *)
(* told to cease transmission and whose steg is asked for room, transmits  *)
(* nothing                                                                 *)
C29_Witness ==
  /\ call.op = "send"
  /\ Silenced(1)
  /\ call.before.ckt.downstreams = { 1 }
  /\ call.before.conn[1].room = Big
  /\ evbuffer_get_length(call.before.ckt.up_in) > 0
  /\ ~call.after.aborted
  /\ call.after.ret = 0
  /\ call.after.tx[1] = << >>

(* a circuit has been destroyed *)
CircuitDestroyed ==
  /\ call.op = "circuit_close"
  /\ ~call.after.aborted
  /\ ~call.after.ckt.live

(* C30: when a circuit is destroyed, every downstream it had is detached   *)
(* from it and is neither deleted nor set to be closed: all of them are    *)
(* alive when the destructor returns.                                      *)
C30_DestructorDetaches ==
  CircuitDestroyed =>
    \A c \in call.before.ckt.downstreams :
      /\ ~call.after.conn[c].upstream
      /\ call.after.conn[c].live
      /\ ~call.after.conn[c].flushing

(* C31: the sequence number does not wrap: once the client's circuit has   *)
(* emitted the block with the highest sequence number, it emits no further *)
(* block under the same keys.                                              *)
C31_NoWrap ==
  \A i \in 1 .. Len(proc["client"].log) :
    proc["client"].log[i].hdr.s = SeqMod - 1 => i = Len(proc["client"].log)

(* the places in the key stream a key is taken from *)
Places(key) ==
  UNION { { << key[i].blk, key[i].lo + k >> : k \in 0 .. key[i].len - 1 } :
            i \in 1 .. Len(key) }

KeyNames == { "send_crypt", "send_hdr_crypt", "recv_crypt", "recv_hdr_crypt" }

(* C32: the circuits of the two modes take their keys from the same key    *)
(* stream so that what one side encrypts headers with the other decrypts   *)
(* headers with, and likewise for the payload, in both directions; the     *)
(* four keys are whole keys from four separate places in the stream.       *)
C32_Keys ==
  call.op = "keys" =>
    LET mine   == call.keys
        theirs == circuit_keys(Peer(call.mode), NewKeyGen)
    IN  /\ ~mine.aborted
        /\ mine.send_crypt = theirs.recv_crypt
        /\ mine.send_hdr_crypt = theirs.recv_hdr_crypt
        /\ mine.recv_crypt = theirs.send_crypt
        /\ mine.recv_hdr_crypt = theirs.send_hdr_crypt
        /\ \A a \in KeyNames :
             /\ Cardinality(Places(mine[a])) = KeyLen
             /\ \A pl \in Places(mine[a]) : pl[1] # 0
             /\ \A b \in KeyNames \ { a } :
                  Places(mine[a]) \cap Places(mine[b]) = { }

(* a server circuit has been given its keys *)
C32_Witness ==
  /\ call.op = "keys"
  /\ call.mode = "server"
  /\ Places(call.keys.send_hdr_crypt) # { }
  /\ call.keys.send_hdr_crypt # call.keys.recv_hdr_crypt

(* the operations of a run, without what they yield *)
Ops(run) == [i \in 1 .. Len(run) |-> run[i].op]

HasOr(step) == step.op = "or"

FailEnvs ==
  { Quiet(Room(0, 0)), Quiet(Room(Big, Big)),
    Env(Room(Big, Big), 1, FALSE, FALSE),
    Starved(Room(Big, Big), "block"), Starved(Room(Big, Big), "prepend") }

NextFail ==
  \/ \E c \in Conns : Connect(c, FailEnvs, TRUE)
  \/ UpstreamRead("client", { 1, 2 }, { Quiet(Room(0, 0)) }, TRUE)
  \/ UpstreamEOF("client", { Quiet(Room(0, 0)) }, TRUE)
  \/ FlushTimeout("client", FailEnvs, TRUE)
  \/ TransmitSoon("client", 1)
  \/ MustSendTimeout("client", 1, FailEnvs, TRUE)

SpecFail == Init /\ [][NextFail]_vars

(***************************************************************************)
(* SpecEof: the peer ends its transmission on connection 1, which belongs  *)
(* to a circuit or to none, with blocks still inbound or not, with a steg  *)
(* that leaves inbound bytes behind or not; the circuit has sent its FIN   *)
(* or not, the connection has been told to cease transmission or not, and  *)
(* its must-send timer is pending or not.                                  *)
(***************************************************************************)
EofEnvs == { Quiet(Room(0, 0)), Stuck(Room(0, 0)) }

(* what is inbound when the peer ends: nothing, a block of data, a block   *)
(* whose check field is not zero, or the one after the other               *)
EofInbound ==
  LET good == [hs |-> NoHandshake, hdr |-> block_header(0, 1, 0, op_DAT),
               data |-> Run(0, 1), mac |-> TRUE]
      bad  == [good EXCEPT !.hdr.check = BadCheck]
  IN  { << >>, << good >>, << bad >>, << good, bad >> }

InitEof ==
  /\ \E side \in Sides, n \in 0 .. 2, sent \in BOOLEAN, ceased \in BOOLEAN,
        timer \in BOOLEAN, inb \in EofInbound :
       LET P0 == [NewProc(side) EXCEPT
                    !.ckt = [NewCircuit(ClientCircuit) EXCEPT
                               !.upstream_eof = sent, !.sent_fin = sent],
                    !.cur = ClientCircuit,
                    !.circuits = (ClientCircuit :> "live"),
                    !.conn = [c \in Conns |->
                                [NewConn EXCEPT !.sent_handshake = TRUE]]]
           P1 == Attach(P0, SubSeq(<< 1, 2 >>, 1, n))
       IN  /\ proc = [s \in Sides |->
                        IF s = side
                          THEN [P1 EXCEPT
                                  !.conn[1].no_more_transmissions = ceased,
                                  !.conn[1].must_send_timer = timer]
                          ELSE NewProc(s)]
           /\ wire = [s \in Sides |-> [c \in Conns |->
                        IF s = side /\ c = 1 /\ n > 0 THEN inb ELSE << >>]]
  /\ written = [side \in Sides |-> 0]
  /\ forged = 0
  /\ call = NoCall

NextEof == \E side \in Sides : DownstreamEOF(side, 1, EofEnvs, TRUE)

SpecEof == InitEof /\ [][NextEof]_vars

(***************************************************************************)
(* SpecFin: a client whose upstream writes and reaches end of file while   *)
(* the stegs of its connections offer room or none.  A connection that can *)
(* be opened is opened, the flush timer fires when it is armed, and a      *)
(* handler that runs again and again does not find the stegs without room  *)
(* every time.                                                             *)
(***************************************************************************)
NoRoom == { Quiet(Room(0, 0)) }

WithRoom ==
  { Quiet(Room(MIN_BLOCK_SIZE + 1, MIN_BLOCK_SIZE + 1)),
    Quiet(Room(Big, Big)) }

(* the bounds of the model leave `side` a further pass of send() *)
Patient(side) ==
  /\ proc[side].ckt.dead_cycles + 1 < MaxDeadCycles
  /\ proc[side].ckt.send_seq + 1 < MaxBlocks

ConnectRoomy == \E c \in Conns : Connect(c, { Quiet(Room(Big, Big)) }, FALSE)

FlushRoomy == FlushTimeout("client", WithRoom, FALSE)

NextFin ==
  \/ ConnectRoomy
  \/ Patient("client") /\ UpstreamRead("client", { 1, 2 }, NoRoom, FALSE)
  \/ Patient("client") /\ UpstreamEOF("client", NoRoom, FALSE)
  \/ UpstreamEOF("client", WithRoom, FALSE)
  \/ FlushRoomy

SpecFin ==
  /\ Init /\ [][NextFin]_vars
  /\ WF_vars(ConnectRoomy) /\ WF_vars(FlushRoomy)

(***************************************************************************)
(* SpecLinks: the client creates circuits and opens connections, which     *)
(* join the circuit their handshake names at the server; the client closes *)
(* connections, the server sees them end, and the server closes circuits.  *)
(***************************************************************************)
NextLinks ==
  \/ CircuitCreate("client", FALSE)
  \/ CircuitClose("server", FALSE)
  \/ \E c \in Conns : Connect(c, { Quiet(Room(Big, Big)) }, FALSE)
  \/ \E c \in Conns : DownstreamRead("server", c, Silent, FALSE)
  \/ ConnClose("client", 1, FALSE)
  \/ DownstreamEOF("server", 1, Silent, FALSE)

SpecLinks == Init /\ [][NextLinks]_vars

(***************************************************************************)
(* SpecOrphan: circuits are made at the server by handshakes, whose        *)
(* upstream may fail to open, and are destroyed: by the framework, or when *)
(* the last connection of a circuit that has sent and received its FIN     *)
(* goes.                                                                   *)
(***************************************************************************)
Orphans == { Orphaned(Room(0, 0), junk) : junk \in 0 .. MaxId }

NextOrphan ==
  \/ \E c \in Conns : Connect(c, { Quiet(Room(Big, Big)) }, FALSE)
  \/ \E c \in Conns : DownstreamRead("server", c, Silent \cup Orphans, TRUE)
  \/ DownstreamRead("client", 1, Silent, TRUE)
  \/ \E side \in Sides : UpstreamEOF(side, { Quiet(Room(Big, 0)) }, FALSE)
  \/ \E side \in Sides : CircuitClose(side, TRUE)
  \/ \E side \in Sides : ConnClose(side, 1, TRUE)

SpecOrphan == Init /\ [][NextOrphan]_vars

(***************************************************************************)
(* SpecShort: the server's steg hands over no more than the first bytes of *)
(* what a new connection has sent.                                         *)
(***************************************************************************)
FirstBytes == { 0, 1, 3, 4, MIN_BLOCK_SIZE + 3 }

(* the read callback of a connection without a circuit, of whose first     *)
(* block steg->receive has extracted the first n bytes, then recv()        *)
DownstreamReadFirst(side, c, envs, trace) ==
  /\ Running(side)
  /\ proc[side].conn[c].live
  /\ ~proc[side].conn[c].upstream
  /\ proc[side].conn[c].recv_pending = << >>
  /\ IF wire[side][c] = << >> THEN FALSE
     ELSE Head(wire[side][c]).hs # NoHandshake
  /\ \E n \in FirstBytes, env \in envs :
       /\ n < wire_len(Head(wire[side][c]))
       /\ \E P0 \in { Begin([proc[side] EXCEPT
                                !.conn[c].recv_pending =
                                   IF n = 0 THEN << >>
                                   ELSE << Head(wire[side][c]) >>,
                                !.conn[c].recv_short =
                                   IF n = 0 THEN 0
                                   ELSE wire_len(Head(wire[side][c])) - n],
                             env) } :
            \E P1 \in { recv(P0, c) } :
              \E P2 \in { downstream_read_result(P1, c) } :
                /\ proc' = [proc EXCEPT ![side] = Finish(P2)]
                /\ wire' = Deliver([wire EXCEPT ![side][c] =
                                      IF n = 0 THEN @ ELSE Tail(@)],
                                   Peer(side), P2)
                /\ call' = Observe(trace, "recv", side, c, P0, P1)
  /\ UNCHANGED << written, forged >>

NextShort ==
  \/ CircuitCreate("client", FALSE)
  \/ \E c \in Conns : Connect(c, { Quiet(Room(Big, Big)) }, FALSE)
  \/ \E c \in Conns : DownstreamRead("server", c, Silent, FALSE)
  \/ \E c \in Conns : DownstreamReadFirst("server", c, Silent, TRUE)
  \/ \E c \in Conns : DownstreamReadSome("server", c, Silent, FALSE)

SpecShort == Init /\ [][NextShort]_vars

(* a recv() that finds the last block in recv_pending incomplete *)
Fragmented ==
  /\ call.op = "recv"
  /\ call.before.conn[call.conn].upstream
  /\ call.before.conn[call.conn].recv_short > 0

Fragment ==
  call.before.conn[call.conn].recv_pending[
    Len(call.before.conn[call.conn].recv_pending)]

FragmentBytes == wire_len(Fragment) - call.before.conn[call.conn].recv_short

(* the same recv() had nothing of that block arrived *)
Unfragmented ==
  recv([call.before EXCEPT
          !.conn[call.conn].recv_pending = SubSeq(@, 1, Len(@) - 1),
          !.conn[call.conn].recv_short = 0],
       call.conn)

(* C34: a recv() that finds less than a header with its tag of the last    *)
(* block, or a valid header and less than the whole block, does what it    *)
(* would have done had nothing of that block arrived, and keeps the bytes  *)
(* of the block in recv_pending; and whatever the pieces the blocks arrive *)
(* in, the server's upstream gets the data of the blocks taken so far in   *)
(* sequence order, a prefix of what the client's upstream wrote, and all   *)
(* of it once every block has been taken and the client has nothing left.  *)
C34_Fragments ==
  /\ Fragmented
       /\ (\/ FragmentBytes < MIN_BLOCK_SIZE
           \/ valid(Fragment.hdr, window(call.before.ckt.recv_queue)))
       => call.after =
            [Unfragmented EXCEPT
               !.conn[call.conn].recv_pending = Append(@, Fragment),
               !.conn[call.conn].recv_short =
                  call.before.conn[call.conn].recv_short]
  /\ Server.ckt.live =>
       /\ Server.ckt.up_out =
            Run(0, evbuffer_get_length(Server.ckt.up_out))
       /\ window(Server.ckt.recv_queue) <= Len(Client.log)
       /\ Server.ckt.up_out =
            ConcatData(Client.log, window(Server.ckt.recv_queue))
       /\ window(Server.ckt.recv_queue) = Len(Client.log)
            /\ Client.ckt.up_in = << >>
            => Server.ckt.up_out = Run(0, written["client"])

(* a recv() decodes a whole block that carries data and keeps the header   *)
(* and part of the next one, which it finds valid                          *)
C34_Witness ==
  /\ Fragmented
  /\ FragmentBytes >= MIN_BLOCK_SIZE
  /\ valid(Fragment.hdr, window(call.before.ckt.recv_queue))
  /\ Len(call.before.conn[call.conn].recv_pending) = 2
  /\ call.after.ret = 0
  /\ call.after.conn[call.conn].recv_pending = << Fragment >>
  /\ call.after.ckt.up_out # call.before.ckt.up_out

(* the call observed reaches send_targeted on connection c first of all:   *)
(* handshake() or the must-send timer on a connection of a circuit         *)
TargetedCall(c) ==
  /\ call.op \in { "handshake", "must_send" }
  /\ call.conn = c
  /\ call.before.conn[c].steg
  /\ call.before.conn[c].upstream

(* what send_targeted(conn) makes of the state the observed call began in *)
Targeted(c) ==
  send_targeted_conn(
    [call.before EXCEPT !.conn[c].must_send_timer = FALSE], c)

(* the environment of the observed call fails the transmission of the      *)
(* block that connection c is given                                        *)
TransmitFails(c) ==
  /\ call.before.conn[c].room >= MIN_BLOCK_SIZE
  /\ \/ call.before.o.nomem = "block"
     \/ call.before.o.nomem = "prepend" /\ ~call.before.conn[c].sent_handshake
     \/ call.before.o.failat = 1

(* the call observed is a send() whose first block meets an allocation     *)
(* that fails or a steg that fails to transmit                             *)
SendFails ==
  /\ call.op = "send"
  /\ \E c \in call.before.ckt.downstreams :
       call.before.conn[c].room > MIN_BLOCK_SIZE
  /\ call.before.o.nomem = "block" \/ call.before.o.failat = 1

(* send sequence number, FIN mark and upstream input of the circuit *)
SendState(P) == << P.ckt.send_seq, P.ckt.sent_fin, P.ckt.up_in, P.log >>

(* C35: when the buffer of a block cannot be allocated, the circuit id     *)
(* cannot be put before a first block or the steg fails to transmit,       *)
(* send_targeted returns -1 with send_seq, sent_fin and the upstream input *)
(* buffer as they were, and so does the handler that called it; the bytes  *)
(* stay at the front of the upstream input, so that the blocks emitted so  *)
(* far, numbered without a gap, followed by the upstream input are the     *)
(* bytes the upstream wrote.                                               *)
C35_FailedTransmit ==
  /\ \A c \in Conns :
       TargetedCall(c) /\ TransmitFails(c) =>
         /\ Targeted(c).ret = 0 - 1
         /\ ~Targeted(c).aborted
         /\ SendState(Targeted(c)) = SendState(call.before)
         /\ SendState(call.after) = SendState(call.before)
  /\ SendFails =>
       /\ call.after.ret = 0 - 1
       /\ ~call.after.aborted
       /\ SendState(call.after) = SendState(call.before)
  /\ Client.ckt.live =>
       /\ \A i \in 1 .. Len(Client.log) : Client.log[i].hdr.s = i - 1
       /\ Client.ckt.send_seq = Len(Client.log)
       /\ evbuffer_add_buffer(ConcatData(Client.log, Len(Client.log)),
                              Client.ckt.up_in)
            = Run(0, written["client"])

(* the steg fails to transmit a block that would have carried data, after  *)
(* other blocks have gone out                                              *)
C35_Witness ==
  \E c \in Conns :
    /\ TargetedCall(c) /\ TransmitFails(c)
    /\ call.before.o.failat = 1
    /\ call.before.ckt.up_in # << >>
    /\ call.before.ckt.send_seq > 0
    /\ call.after.ret = 0 - 1

(* the call observed is a recv_eof() on connection c *)
EofCall(c) == call.op = "recv_eof" /\ call.conn = c

(* the state recv_eof() takes its decision in: after recv(), if there was  *)
(* anything inbound                                                        *)
AfterRecv(c) ==
  IF call.before.conn[c].inbound > 0
    THEN recv(steg_receive(call.before, c), c)
    ELSE call.before

(* the condition under which recv_eof() drops the connection *)
DropDecision(P, c) ==
  /\ P.conn[c].upstream
  /\ P.ckt.sent_fin \/ P.conn[c].no_more_transmissions
  /\ ~P.conn[c].must_send_timer

(* C36: recv_eof() first runs what is inbound through recv(); it returns   *)
(* -1, leaving the connection where recv() left it, exactly when recv()    *)
(* fails or leaves inbound bytes behind; otherwise it returns 0, having    *)
(* dropped the connection from its circuit if the connection has a         *)
(* circuit, the circuit has sent its FIN or the connection has             *)
(* no_more_transmissions set, and the must-send timer is not pending, and  *)
(* having left the connection as it was if not.                            *)
C36_RecvEof ==
  \A c \in Conns :
    EofCall(c) /\ ~call.after.aborted =>
      /\ call.after.ret \in { 0, 0 - 1 }
      /\ call.after.ret = 0 - 1
           <=> /\ call.before.conn[c].inbound > 0
               /\ \/ AfterRecv(c).ret # 0
                  \/ AfterRecv(c).conn[c].inbound > 0
      /\ call.after.ret = 0 - 1 => call.after = Return(AfterRecv(c), 0 - 1)
      /\ call.after.ret = 0 =>
           IF DropDecision(AfterRecv(c), c)
             THEN /\ ~call.after.conn[c].upstream
                  /\ c \notin call.after.ckt.downstreams
             ELSE call.after = Return(AfterRecv(c), 0)

(* a connection of a circuit that has sent its FIN is dropped once the     *)
(* block of data that was still inbound has been delivered                 *)
C36_Witness ==
  /\ EofCall(1)
  /\ call.before.conn[1].upstream
  /\ call.before.ckt.sent_fin
  /\ ~call.before.conn[1].no_more_transmissions
  /\ Len(call.before.conn[1].recv_pending) = 1
  /\ call.after.ret = 0
  /\ call.after.ckt.up_out # << >>
  /\ ~call.after.conn[1].upstream
  /\ 1 \notin call.after.ckt.downstreams

(* the bytes the upstream of `side` wrote have all been emitted, in order *)
AllEmitted(side) ==
  /\ proc[side].ckt.up_in = << >>
  /\ ConcatData(proc[side].log, Len(proc[side].log))
       = Run(0, written[side])

(* C37: a client circuit whose upstream has reported end of file           *)
(* eventually sets sent_fin, given that its flush timer fires and that the *)
(* stegs offer room for more than 32 bytes then; and when sent_fin is set, *)
(* every byte the upstream wrote has been emitted in order and no block    *)
(* after the FIN carries data.                                             *)
C37_FinEventually ==
  /\ (Client.ckt.live /\ Client.ckt.upstream_eof) ~> Client.ckt.sent_fin
  /\ [](Client.ckt.live /\ Client.ckt.sent_fin =>
          /\ AllEmitted("client")
          /\ \E i \in 1 .. Len(Client.log) :
               /\ Client.log[i].hdr.f = op_FIN
               /\ \A j \in i + 1 .. Len(Client.log) :
                    Client.log[j].hdr.d = 0)

(* the live circuits of P whose downstream set holds connection c *)
Holders(P, c) == { k \in DOMAIN Live(P) : c \in Live(P)[k].downstreams }

HeldAt(P, k) == IF P.ckt.live /\ P.cur = k THEN P.ckt ELSE P.parked[k]

(* the two assertions of ~chop_circuit_t(): the table has an entry for the *)
(* circuit's circuit_id, and the entry points to the circuit               *)
Tabled(P) ==
  /\ P.ckt.circuit_id \in DOMAIN P.circuits
  /\ P.circuits[P.ckt.circuit_id] = "live"
  /\ P.cur = P.ckt.circuit_id

(* a recv() on a server connection whose handshake names an unseen circuit *)
(* and whose circuit_open_upstream fails                                   *)
OpenFails ==
  /\ call.op = "recv"
  /\ call.before.mode = "server"
  /\ ~call.before.conn[call.conn].upstream
  /\ call.before.conn[call.conn].recv_pending # << >>
  /\ Head(call.before.conn[call.conn].recv_pending).hs
       \notin DOMAIN call.before.circuits
  /\ call.before.o.nomem = "upstream"

(* C39: whenever a circuit is destroyed the circuit table holds an entry   *)
(* for its circuit_id that points to it: a circuit that a handler has      *)
(* destroyed was held in the table under its own circuit_id, and the       *)
(* circuit that recv_handshake deletes when the upstream cannot be opened  *)
(* satisfies the destructor's two assertions.                              *)
C39_TableEntry ==
  /\ call.op \in { "recv", "close", "circuit_close" } =>
       \A k \in DOMAIN call.before.circuits :
            call.before.circuits[k] = "live" /\ call.after.circuits[k] = "null"
              => HeldAt(call.before, k).circuit_id = k
  /\ OpenFails =>
       Tabled(Unopened(call.before,
                       Head(call.before.conn[call.conn].recv_pending).hs))

(* a recv() on a server connection without a circuit that finds fewer than *)
(* four bytes in recv_pending                                              *)
ShortHandshake ==
  /\ call.op = "recv"
  /\ call.before.mode = "server"
  /\ ~call.before.conn[call.conn].upstream
  /\ IF call.before.conn[call.conn].recv_pending = << >> THEN TRUE
     ELSE pending_avail(call.before, call.conn) < 4

(* C40: a recv() on a server connection without a circuit that finds fewer *)
(* than four bytes in recv_pending, or none, returns -1; it has created no *)
(* circuit, added nothing to the circuit table and attached the connection *)
(* to nothing, and the bytes there were are gone from recv_pending.        *)
C40_ShortHandshake ==
  ShortHandshake =>
    /\ ~call.after.aborted
    /\ call.after.ret = -1
    /\ call.after.circuits = call.before.circuits
    /\ call.after.ckt = call.before.ckt
    /\ call.after.cur = call.before.cur
    /\ call.after.parked = call.before.parked
    /\ ~call.after.conn[call.conn].upstream
    /\ call.after.conn[call.conn].recv_pending = << >>
    /\ call.after.conn[call.conn].recv_short = 0
    /\ call.after.tx = call.before.tx

(* three bytes of a circuit id have arrived at a server that has a circuit *)
(* already, and recv() has failed                                          *)
C40_Witness ==
  /\ ShortHandshake
  /\ call.before.conn[call.conn].recv_pending # << >>
  /\ pending_avail(call.before, call.conn) = 3
  /\ DOMAIN Live(call.before) # { }
  /\ call.after.ret = -1

====
